---------------------------- MODULE Spec2Model ----------------------------
(***************************************************************************)
(* Clip sequencing and transition planning (scripts/smart_sequence_clips,  *)
(* scripts/smart_loop_trimmer, scripts/sequence_and_assemble_verbose).     *)
(*                                                                         *)
(* Numbers.  Scores are Python floats in the source.  Here a score is an   *)
(* integer number of 1/Scale units, so that every weight, every motion     *)
(* factor and every colour ratio matches/min(len) with lists of at most    *)
(* MaxColors entries is exact.  IEEE rounding of the float sum is not      *)
(* modelled: two sums that are equal as rationals are equal here, while    *)
(* the floats may differ in the last bit.  Times are integer milliseconds. *)
(***************************************************************************)
EXTENDS Integers, Sequences, FiniteSets, TLC

(***************************************************************************)
(* Bounds of the model.                                                    *)
(***************************************************************************)
MaxColors == 2
MaxClips == 3
MaxFiles == 3
MaxSeconds == 5

\* A result that is not there yet is <<>>; a result r that is there is <<r>>.
VARIABLES
    clip_a,         \* scorer: first argument of calculate_transition_score
    clip_b,         \* scorer: second argument of calculate_transition_score
    score,          \* scorer: the returned score
    clips,          \* ClipAnalyzer.clips after load_metadata
    sequence,       \* what find_optimal_sequence returned
    transitions,    \* what generate_transitions returned for that sequence
    smart_manifest, \* contents of smart_manifest.json
    loop_manifest,  \* contents of smart_manifest_loop_trimmed.json
    seq_status,     \* how smart_sequence_clips / smart_loop_trimmer ended
    meta_files,     \* normalizer: the *.json files of META_DIR, in sorted order
    raw_items,      \* normalizer: what load_items returned
    items,          \* normalizer: what apply_sequential_fallback returned
    manifest_json,  \* normalizer: contents of manifest.json
    norm_status,    \* normalizer: where sequence_and_assemble_verbose.main is
    time_case,      \* parse_time: which value v is passed (see TimeCases)
    time_out,       \* parse_time: the returned value
    trim_duration,  \* find_clean_motion_segment: duration, in milliseconds
    trim_probe,     \* find_clean_motion_segment: outcome of each frame probe
    trim_result,    \* find_clean_motion_segment: the returned triple
    stitch_items,   \* stitchers: the item list of the manifest that is read
    stitch_run,     \* stitchers: which script ran and what it gave the encoder
    meta_record,    \* load_meta_files: the normalised keys of one metadata file
    meta_item,      \* load_meta_files: the item or the problem it gives
    filter_manifest, \* smart stitcher: items and transitions of the manifest
    filter_run      \* smart stitcher: the inputs and the filter graph it built

scoreVars == <<clip_a, clip_b, score>>
seqVars == <<clips, sequence, transitions, smart_manifest, loop_manifest, seq_status>>
normVars == <<meta_files, raw_items, items, manifest_json, norm_status>>
parseVars == <<time_case, time_out>>
trimVars == <<trim_duration, trim_probe, trim_result>>
stitchVars == <<stitch_items, stitch_run>>
metaVars == <<meta_record, meta_item>>
filterVars == <<filter_manifest, filter_run>>

vars == <<clip_a, clip_b, score, clips, sequence, transitions, smart_manifest,
          loop_manifest, seq_status, meta_files, raw_items, items, manifest_json,
          norm_status, time_case, time_out, trim_duration, trim_probe, trim_result,
          stitch_items, stitch_run, meta_record, meta_item, filter_manifest,
          filter_run>>

(***************************************************************************)
(* Small helpers.                                                          *)
(***************************************************************************)
Min(x, y) == IF x <= y THEN x ELSE y
Max(x, y) == IF x >= y THEN x ELSE y

Range(s) == {s[i] : i \in 1..Len(s)}

SeqsUpTo(S, n) == UNION {[1..k -> S] : k \in 0..n}

RECURSIVE Fact(_)
Fact(n) == IF n <= 1 THEN 1 ELSE n * Fact(n - 1)

\* One whole (1.0) in score units; 200 makes 0.15 * {0.2, 0.5, 0.8} exact,
\* Fact(MaxColors) makes 0.1 * m / k exact for every k <= MaxColors.
Scale == 200 * Fact(MaxColors)

\* A fraction <<n, d>> of a weight w given in score units.
Times(frac, w) == (frac[1] * w) \div frac[2]

(***************************************************************************)
(* Frames.  A frame is the description of a clip's first or last frame as  *)
(* analyze_clip.py writes it.  Each field holds what frame.get(key, '')    *)
(* (or .get(key, []) for dominant_colors) returns: the empty value stands  *)
(* for an absent key as well as for an empty one.  A subject is the        *)
(* sequence of its whitespace-separated words.                             *)
(***************************************************************************)
SubjectVals == {<<>>, <<"person">>, <<"tall", "Person">>}
SceneVals == {"", "bedroom"}
LightingVals == {"", "bright", "sunny", "dim"}
MotionVals == {"", "slow", "calm", "fast", "zoom"}
ColorNames == {"red", "blue"}
ColorVals == SeqsUpTo(ColorNames, MaxColors)

Frames ==
    [subject : SubjectVals, scene_type : SceneVals, lighting : LightingVals,
     motion : MotionVals, dominant_colors : ColorVals]

NoFrame ==
    [subject |-> <<>>, scene_type |-> "", lighting |-> "", motion |-> "",
     dominant_colors |-> <<>>]

\* str.lower() on the words of the vocabulary.
Lower(w) == IF w = "Person" THEN "person" ELSE IF w = "Tall" THEN "tall" ELSE w

(***************************************************************************)
(* ClipAnalyzer._similar_subjects                                          *)
(***************************************************************************)
similar_subjects(subj_a, subj_b) ==
    IF subj_a = <<>> \/ subj_b = <<>> THEN FALSE
    ELSE LET words_a == {Lower(w) : w \in Range(subj_a)}
             words_b == {Lower(w) : w \in Range(subj_b)}
         IN  Cardinality(words_a \cap words_b) > 0

(***************************************************************************)
(* ClipAnalyzer._compatible_lighting                                       *)
(***************************************************************************)
compatible_lighting(light_a, light_b) ==
    LET bright == {"bright", "daylight", "sunny", "well-lit"}
        dim == {"dim", "dark", "low-light", "evening", "night"}
    IN  IF light_a \in bright /\ light_b \in bright THEN TRUE
        ELSE IF light_a \in dim /\ light_b \in dim THEN TRUE
        ELSE FALSE

(***************************************************************************)
(* ClipAnalyzer._motion_compatibility, as a fraction <<n, d>>.             *)
(***************************************************************************)
MotionOpposedPenalty(motion_a, motion_b) ==
    LET slow_motions == {"slow", "gentle", "calm", "still", "steady"}
        fast_motions == {"fast", "quick", "rapid", "dynamic", "energetic"}
    IN  IF motion_a = "" \/ motion_b = "" THEN <<1, 2>>
        ELSE IF motion_a = motion_b THEN <<1, 1>>
        ELSE IF motion_a \in slow_motions /\ motion_b \in slow_motions THEN <<4, 5>>
        ELSE IF motion_a \in fast_motions /\ motion_b \in fast_motions THEN <<4, 5>>
        ELSE IF \/ motion_a \in slow_motions /\ motion_b \in fast_motions
                \/ motion_a \in fast_motions /\ motion_b \in slow_motions
             THEN <<-1, 5>>
        ELSE <<1, 2>>

motion_compatibility(motion_a, motion_b) ==
    LET slow_motions == {"slow", "gentle", "calm", "still", "steady"}
        fast_motions == {"fast", "quick", "rapid", "dynamic", "energetic"}
    IN  IF motion_a = "" \/ motion_b = "" THEN <<1, 2>>
        ELSE IF motion_a = motion_b THEN <<1, 1>>
        ELSE IF motion_a \in slow_motions /\ motion_b \in slow_motions THEN <<4, 5>>
        ELSE IF motion_a \in fast_motions /\ motion_b \in fast_motions THEN <<4, 5>>
        ELSE IF \/ motion_a \in slow_motions /\ motion_b \in fast_motions
                \/ motion_a \in fast_motions /\ motion_b \in slow_motions
             THEN <<1, 5>>
        ELSE <<1, 2>>

(***************************************************************************)
(* ClipAnalyzer._color_harmony, as a fraction <<n, d>>.                    *)
(***************************************************************************)
\* The same with matches counted over the list colors_a, duplicates included.
ColorHarmonyCountingDuplicates(colors_a, colors_b) ==
    IF colors_a = <<>> \/ colors_b = <<>> THEN <<1, 2>>
    ELSE LET matches ==
                 Cardinality({i \in 1..Len(colors_a) : colors_a[i] \in Range(colors_b)})
             max_possible == Min(Len(colors_a), Len(colors_b))
         IN  IF max_possible = 0 THEN <<1, 2>> ELSE <<matches, max_possible>>

color_harmony(colors_a, colors_b) ==
    IF colors_a = <<>> \/ colors_b = <<>> THEN <<1, 2>>
    ELSE LET matches == Cardinality(Range(colors_a) \cap Range(colors_b))
             max_possible == Min(Len(colors_a), Len(colors_b))
         IN  IF max_possible = 0 THEN <<1, 2>> ELSE <<matches, max_possible>>

(***************************************************************************)
(* ClipAnalyzer.calculate_transition_score: the five contributions, in the *)
(* order the code adds them, and their clamped sum.                        *)
(***************************************************************************)
SubjectWeight == (3 * Scale) \div 10
SceneWeight == Scale \div 4
LightingWeight == Scale \div 5
MotionWeight == (3 * Scale) \div 20
ColorWeight == Scale \div 10

SubjectCredit(end_a, start_b) ==
    IF end_a.subject = start_b.subject THEN SubjectWeight
    ELSE IF similar_subjects(end_a.subject, start_b.subject) THEN SubjectWeight \div 2
    ELSE 0

SceneCredit(end_a, start_b) ==
    IF end_a.scene_type = start_b.scene_type THEN SceneWeight ELSE 0

LightingCreditTenfold(end_a, start_b) ==
    IF end_a.lighting = start_b.lighting THEN 2 * Scale
    ELSE IF compatible_lighting(end_a.lighting, start_b.lighting) THEN LightingWeight \div 2
    ELSE 0

LightingCredit(end_a, start_b) ==
    IF end_a.lighting = start_b.lighting THEN LightingWeight
    ELSE IF compatible_lighting(end_a.lighting, start_b.lighting) THEN LightingWeight \div 2
    ELSE 0

MotionCredit(end_a, start_b) ==
    Times(motion_compatibility(end_a.motion, start_b.motion), MotionWeight)

ColorCredit(end_a, start_b) ==
    Times(color_harmony(end_a.dominant_colors, start_b.dominant_colors), ColorWeight)

\* The sum before the final min(1.0, score).
RawScore(a, b) ==
    LET end_a == a.end_frame
        start_b == b.start_frame
    IN  SubjectCredit(end_a, start_b) + SceneCredit(end_a, start_b)
        + LightingCredit(end_a, start_b) + MotionCredit(end_a, start_b)
        + ColorCredit(end_a, start_b)

calculate_transition_score(a, b) == Min(Scale, RawScore(a, b))

(***************************************************************************)
(* ClipAnalyzer.find_optimal_sequence.  ScanBest is the inner for loop     *)
(* over the candidates (best_idx 0 stands for best_clip None), GreedyTour  *)
(* the while loop over remaining.                                          *)
(***************************************************************************)
RemoveAt(s, i) == [j \in 1..(Len(s) - 1) |-> IF j < i THEN s[j] ELSE s[j + 1]]

RECURSIVE ScanBestLastWins(_, _, _, _, _)
ScanBestLastWins(current_clip, remaining, i, best_score, best_idx) ==
    IF i > Len(remaining) THEN best_idx
    ELSE LET sc == calculate_transition_score(current_clip, remaining[i])
         IN  IF sc >= best_score
             THEN ScanBestLastWins(current_clip, remaining, i + 1, sc, i)
             ELSE ScanBestLastWins(current_clip, remaining, i + 1, best_score, best_idx)

RECURSIVE ScanBest(_, _, _, _, _)
ScanBest(current_clip, remaining, i, best_score, best_idx) ==
    IF i > Len(remaining) THEN best_idx
    ELSE LET sc == calculate_transition_score(current_clip, remaining[i])
         IN  IF sc > best_score
             THEN ScanBest(current_clip, remaining, i + 1, sc, i)
             ELSE ScanBest(current_clip, remaining, i + 1, best_score, best_idx)

RECURSIVE GreedyTourPopFirst(_, _)
GreedyTourPopFirst(seq, remaining) ==
    IF remaining = <<>> THEN seq
    ELSE LET best_idx == ScanBest(seq[Len(seq)], remaining, 1, -Scale, 0)
         IN  GreedyTourPopFirst(Append(seq, remaining[best_idx]), Tail(remaining))

RECURSIVE GreedyTour(_, _)
GreedyTour(seq, remaining) ==
    IF remaining = <<>> THEN seq
    ELSE LET best_idx == ScanBest(seq[Len(seq)], remaining, 1, -Scale, 0)
         IN  IF best_idx # 0
             THEN GreedyTour(Append(seq, remaining[best_idx]), RemoveAt(remaining, best_idx))
             ELSE GreedyTour(Append(seq, Head(remaining)), Tail(remaining))

find_optimal_sequence(cs) ==
    IF Len(cs) <= 1 THEN cs ELSE GreedyTour(<<cs[1]>>, Tail(cs))

(***************************************************************************)
(* ClipAnalyzer.generate_transitions.  Durations are milliseconds.         *)
(***************************************************************************)
ClassifyAtLeast(sc) ==
    IF 5 * sc >= 4 * Scale THEN [type |-> "cut", duration |-> 0]
    ELSE IF 2 * sc >= Scale THEN [type |-> "crossfade", duration |-> 500]
    ELSE [type |-> "fade_black", duration |-> 300]

Classify(sc) ==
    IF 5 * sc > 4 * Scale THEN [type |-> "cut", duration |-> 0]
    ELSE IF 2 * sc > Scale THEN [type |-> "crossfade", duration |-> 500]
    ELSE [type |-> "fade_black", duration |-> 300]

generate_transitions(seq) ==
    [i \in 1..(Len(seq) - 1) |->
        LET sc == calculate_transition_score(seq[i], seq[i + 1])
        IN  [from_clip |-> seq[i].base, to_clip |-> seq[i + 1].base,
             type |-> Classify(sc).type, duration |-> Classify(sc).duration,
             score |-> sc]]

(***************************************************************************)
(* ClipAnalyzer.create_smart_manifest: the document written to             *)
(* smart_manifest.json.  avg_transition_score is the fraction <<sum, n>>.  *)
(***************************************************************************)
RECURSIVE SumScores(_, _)
SumScores(trs, n) == IF n = 0 THEN 0 ELSE SumScores(trs, n - 1) + trs[n].score

\* The same with the duration of every transition taken off, crossfade or not.
RECURSIVE ItemStartAlwaysOverlapping(_, _)
ItemStartAlwaysOverlapping(trs, i) ==
    IF i = 1 THEN 0
    ELSE ItemStartAlwaysOverlapping(trs, i - 1) + 5000 - trs[i - 1].duration

\* current_time when item i (1-based) is appended.
RECURSIVE ItemStart(_, _)
ItemStart(trs, i) ==
    IF i = 1 THEN 0
    ELSE ItemStart(trs, i - 1) + 5000
         - (IF trs[i - 1].type = "crossfade" THEN trs[i - 1].duration ELSE 0)

create_smart_manifest(cs) ==
    LET optimal_sequence == find_optimal_sequence(cs)
        trs == generate_transitions(optimal_sequence)
        n == Len(optimal_sequence)
        manifest_items ==
            [i \in 1..n |->
                [path |-> optimal_sequence[i].path,
                 t0 |-> ItemStart(trs, i),
                 t1 |-> ItemStart(trs, i) + 5000,
                 base |-> optimal_sequence[i].base,
                 transition_in |-> IF i > 1 THEN <<trs[i - 1]>> ELSE <<>>]]
    IN  [version |-> "smart_v1",
         items |-> manifest_items,
         transitions |-> trs,
         total_duration |-> IF n = 0 THEN 0 ELSE ItemStart(trs, n) + 5000,
         optimization_summary |->
            [total_clips |-> n,
             avg_transition_score |->
                IF Len(trs) > 0 THEN <<SumScores(trs, Len(trs)), Len(trs)>>
                ELSE <<0, 1>>]]

(***************************************************************************)
(* smart_loop_trimmer.find_clean_motion_segment.  duration is a multiple   *)
(* of 20 ms; probe[t] is the outcome of extracting the frame at t ms:       *)
(* extract_frame raises, or it returns and the frame is unreadable, or the *)
(* frame is read and has a correlation to the reference, in thousandths.   *)
(* The result is <<motion_start, clean_duration, motion_strength>>.        *)
(***************************************************************************)
LadderTimes == <<200, 400, 600, 800, 1000>>

\* calculate_frame_similarity(first_frame, test_frame), in thousandths: 0.0
\* when cv2.imread gives None for either file, else max(0.0, correlation).
calculate_frame_similarity(first, test) ==
    IF ~first.readable \/ ~test.readable THEN 0 ELSE Max(0, test.sim)

\* The same ladder without the stop at 0.8 * duration.
RECURSIVE StartScanWholeLadder(_, _, _)
StartScanWholeLadder(duration, probe, i) ==
    IF i > Len(LadderTimes) THEN duration \div 10
    ELSE IF probe[LadderTimes[i]].raises THEN StartScanWholeLadder(duration, probe, i + 1)
    ELSE IF calculate_frame_similarity(probe[100], probe[LadderTimes[i]]) < 850
         THEN LadderTimes[i]
    ELSE StartScanWholeLadder(duration, probe, i + 1)

RECURSIVE StartScan(_, _, _)
StartScan(duration, probe, i) ==
    IF i > Len(LadderTimes) THEN duration \div 10
    ELSE LET check_time == LadderTimes[i]
         IN  IF 5 * check_time >= 4 * duration THEN duration \div 10
             ELSE IF probe[check_time].raises THEN StartScan(duration, probe, i + 1)
             ELSE IF calculate_frame_similarity(probe[100], probe[check_time]) < 850
                  THEN check_time
             ELSE StartScan(duration, probe, i + 1)

\* np.arange(start, duration * 0.85, 0.15) takes ceil((stop - start) / 0.15)
\* values, the quotient computed in doubles.  For a 1 s clip and for a 4 s clip
\* scanned from 0.7 s the exact quotient is a whole number (1 and 18) and the
\* double one lies just above it, so the scan has one value more, the one at
\* 0.85 * duration.  For every other duration and start of the model the double
\* quotient has the ceiling of the exact one.  ArangeStop is the first
\* millisecond the scan does not reach.
ArangeRoundsUp == {<<1000, 700>>, <<4000, 700>>}

ArangeStop(duration, start) ==
    IF <<duration, start>> \in ArangeRoundsUp
    THEN (17 * duration) \div 20 + 1
    ELSE (17 * duration) \div 20

\* The values of np.arange(motion_start + 0.5, duration * 0.85, 0.15), one at a
\* time, below stop.
RECURSIVE EndScan(_, _, _, _, _)
EndScan(stop, probe, check_time, motion_end, max_difference) ==
    IF check_time >= stop THEN <<motion_end, max_difference>>
    ELSE IF probe[check_time].raises
         THEN EndScan(stop, probe, check_time + 150, motion_end, max_difference)
    ELSE LET difference == 1000 - calculate_frame_similarity(probe[100], probe[check_time])
         IN  IF difference > max_difference
             THEN EndScan(stop, probe, check_time + 150, check_time + 200, difference)
             ELSE EndScan(stop, probe, check_time + 150, motion_end, max_difference)

\* The body of the try block once the reference frame is extracted: the two
\* scans and the three clamps.
ClampedSegment(duration, probe) ==
    LET start0 == StartScan(duration, probe, 1)
        scan == EndScan(ArangeStop(duration, start0 + 500), probe, start0 + 500,
                             (7 * duration) \div 10, 0)
        motion_start == Max(start0, duration \div 20)
        end1 == Min(scan[1], (17 * duration) \div 20)
        motion_end == Max(end1, motion_start + 1000)
    IN  <<motion_start, motion_end - motion_start, scan[2]>>

\* The same without the lower clamp on motion_start.
SegmentWithoutStartClamp(duration, probe) ==
    IF probe[100].raises
    THEN <<duration \div 5, (3 * duration) \div 5, 0>>
    ELSE LET start0 == StartScan(duration, probe, 1)
             scan == EndScan(ArangeStop(duration, start0 + 500), probe, start0 + 500,
                             (7 * duration) \div 10, 0)
             end1 == Min(scan[1], (17 * duration) \div 20)
             motion_end == Max(end1, start0 + 1000)
         IN  <<start0, motion_end - start0, scan[2]>>

find_clean_motion_segment(duration, probe) ==
    IF probe[100].raises
    THEN <<duration \div 5, (3 * duration) \div 5, 0>>
    ELSE ClampedSegment(duration, probe)

\* The ladder timestamps handed to extract_frame, from ladder position i on.
\* The same, going on with the ladder after a probe below the threshold.
RECURSIVE LadderIssuedPastDrop(_, _, _)
LadderIssuedPastDrop(duration, probe, i) ==
    IF i > Len(LadderTimes) THEN <<>>
    ELSE IF 5 * LadderTimes[i] >= 4 * duration THEN <<>>
    ELSE <<LadderTimes[i]>> \o LadderIssuedPastDrop(duration, probe, i + 1)

RECURSIVE LadderIssued(_, _, _)
LadderIssued(duration, probe, i) ==
    IF i > Len(LadderTimes) THEN <<>>
    ELSE LET check_time == LadderTimes[i]
         IN  IF 5 * check_time >= 4 * duration THEN <<>>
             ELSE IF probe[check_time].raises
                  THEN <<check_time>> \o LadderIssued(duration, probe, i + 1)
             ELSE IF calculate_frame_similarity(probe[100], probe[check_time]) < 850
                  THEN <<check_time>>
             ELSE <<check_time>> \o LadderIssued(duration, probe, i + 1)

\* The timestamps of the end scan, from check_time on.
RECURSIVE EndIssued(_, _)
EndIssued(stop, check_time) ==
    IF check_time >= stop THEN <<>>
    ELSE <<check_time>> \o EndIssued(stop, check_time + 150)

\* Every timestamp the two scans hand to extract_frame after the reference.
ScanIssued(duration, probe) ==
    LadderIssued(duration, probe, 1)
    \o EndIssued(ArangeStop(duration, StartScan(duration, probe, 1) + 500),
                 StartScan(duration, probe, 1) + 500)

\* The timestamps find_clean_motion_segment hands to extract_frame, in order:
\* the reference at 0.1 s and, unless that raised, those of the two scans.
ProbesIssued(duration, probe) ==
    IF probe[100].raises THEN <<100>> ELSE <<100>> \o ScanIssued(duration, probe)

\* Every timestamp find_clean_motion_segment can probe in a clip of this length.
ProbeTimes(duration) ==
    {100} \cup Range(LadderTimes)
    \cup {s + 500 + 150 * k :
            s \in Range(LadderTimes) \cup {duration \div 10},
            k \in 0..(duration \div 150)}

(***************************************************************************)
(* smart_loop_trimmer.process_smart_manifest_with_loop_detection on a      *)
(* manifest with items.  env[i] says what the file system, ffprobe and     *)
(* ffmpeg answer for item i: whether the file exists, its duration, and    *)
(* the probe outcomes.  total_time_saved is in milliseconds.               *)
(***************************************************************************)
\* The same pass, putting each processed item in front of the ones before it.
RECURSIVE ProcessItemsPrepending(_, _, _)
ProcessItemsPrepending(its, env, i) ==
    IF i > Len(its) THEN <<>>
    ELSE IF ~env[i].exists THEN ProcessItemsPrepending(its, env, i + 1)
    ELSE LET item == its[i]
             original_duration == env[i].duration
             seg == find_clean_motion_segment(original_duration, env[i].probe)
             new_item ==
                [path |-> item.path, t0 |-> item.t0, base |-> item.base,
                 transition_in |-> item.transition_in,
                 original_duration |-> original_duration,
                 start_trim |-> seg[1],
                 clean_duration |-> seg[2],
                 motion_strength |-> seg[3],
                 t1 |-> item.t0 + seg[2]]
         IN  ProcessItemsPrepending(its, env, i + 1) \o <<new_item>>

RECURSIVE ProcessItems(_, _, _)
ProcessItems(its, env, i) ==
    IF i > Len(its) THEN <<>>
    ELSE IF ~env[i].exists THEN ProcessItems(its, env, i + 1)
    ELSE LET item == its[i]
             original_duration == env[i].duration
             seg == find_clean_motion_segment(original_duration, env[i].probe)
             new_item ==
                [path |-> item.path, t0 |-> item.t0, base |-> item.base,
                 transition_in |-> item.transition_in,
                 original_duration |-> original_duration,
                 start_trim |-> seg[1],
                 clean_duration |-> seg[2],
                 motion_strength |-> seg[3],
                 t1 |-> item.t0 + seg[2]]
         IN  <<new_item>> \o ProcessItems(its, env, i + 1)

RECURSIVE TotalSaved(_, _)
TotalSaved(processed, n) ==
    IF n = 0 THEN 0
    ELSE TotalSaved(processed, n - 1)
         + (processed[n].original_duration - processed[n].clean_duration)

process_smart_manifest_with_loop_detection(manifest_data, env) ==
    LET processed_items == ProcessItems(manifest_data.items, env, 1)
    IN  [version |-> manifest_data.version,
         items |-> processed_items,
         transitions |-> manifest_data.transitions,
         total_duration |-> manifest_data.total_duration,
         optimization_summary |-> manifest_data.optimization_summary,
         loop_detection |->
            [total_clips |-> Len(processed_items),
             total_time_saved |-> TotalSaved(processed_items, Len(processed_items)),
             trimming_method |-> "start_and_end"]]

(***************************************************************************)
(* JSON values of the metadata files (sequence_and_assemble_verbose).      *)
(* A value is a record [kind, num, str, kids]:                             *)
(*   kind "null"   None, also what dict.get gives for an absent key;       *)
(*   kind "num"    a number, num its value in milliseconds (a bool counts  *)
(*                 as the number it is in Python: kind "num", num 1000/0); *)
(*   kind "str"    a string, str its characters;                           *)
(*   kind "dict"   an object, kids its <<key, value>> pairs in file order; *)
(*   kind "list"   an array, kids its <<"", value>> pairs.                 *)
(* Strings are sequences of characters over the alphabet                   *)
(*   0-9 . : / space a m s A M S                                           *)
(* on which float() accepts exactly digits with at most one dot and at     *)
(* least one digit.  A number of seconds is carried in milliseconds;       *)
(* fraction digits past the third are dropped.                             *)
(***************************************************************************)
JNull == [kind |-> "null", num |-> 0, str |-> <<>>, kids |-> <<>>]
JNum(ms) == [kind |-> "num", num |-> ms, str |-> <<>>, kids |-> <<>>]
JStr(chars) == [kind |-> "str", num |-> 0, str |-> chars, kids |-> <<>>]
JDict(pairs) == [kind |-> "dict", num |-> 0, str |-> <<>>, kids |-> pairs]
JList(vals) ==
    [kind |-> "list", num |-> 0, str |-> <<>>,
     kids |-> [i \in 1..Len(vals) |-> <<"", vals[i]>>]]

\* dict.get(key): the value of the last pair with that key, None when absent.
RECURSIVE DictGetFrom(_, _, _)
DictGetFrom(pairs, key, i) ==
    IF i = 0 THEN JNull
    ELSE IF pairs[i][1] = key THEN pairs[i][2]
    ELSE DictGetFrom(pairs, key, i - 1)

DictGet(pairs, key) == DictGetFrom(pairs, key, Len(pairs))

HasKey(pairs, key) == \E i \in 1..Len(pairs) : pairs[i][1] = key

Digits == <<"0", "1", "2", "3", "4", "5", "6", "7", "8", "9">>

IsDigit(c) == \E d \in 1..10 : Digits[d] = c

DigitVal(c) == (CHOOSE d \in 1..10 : Digits[d] = c) - 1

IsDigits(s) == Len(s) >= 1 /\ \A i \in 1..Len(s) : IsDigit(s[i])

RECURSIVE DigitsVal(_)
DigitsVal(s) ==
    IF Len(s) = 0 THEN 0
    ELSE 10 * DigitsVal(SubSeq(s, 1, Len(s) - 1)) + DigitVal(s[Len(s)])

\* The first three fraction digits as milliseconds.
FracMs(s) ==
    (IF Len(s) >= 1 THEN 100 * DigitVal(s[1]) ELSE 0)
    + (IF Len(s) >= 2 THEN 10 * DigitVal(s[2]) ELSE 0)
    + (IF Len(s) >= 3 THEN DigitVal(s[3]) ELSE 0)

IsSpace(c) == c = " "

RECURSIVE LStrip(_)
LStrip(s) == IF Len(s) > 0 /\ IsSpace(s[1]) THEN LStrip(Tail(s)) ELSE s

RECURSIVE RStrip(_)
RStrip(s) ==
    IF Len(s) > 0 /\ IsSpace(s[Len(s)]) THEN RStrip(SubSeq(s, 1, Len(s) - 1)) ELSE s

\* str.strip()
Strip(s) == RStrip(LStrip(s))

LowerChar(c) == IF c = "S" THEN "s" ELSE IF c = "M" THEN "m" ELSE IF c = "A" THEN "a" ELSE c

\* str.lower()
LowerStr(s) == [i \in 1..Len(s) |-> LowerChar(s[i])]

\* str.endswith(suffix)
EndsWith(s, suffix) ==
    /\ Len(s) >= Len(suffix)
    /\ SubSeq(s, Len(s) - Len(suffix) + 1, Len(s)) = suffix

\* Positions of character c in s.
Positions(s, c) == {i \in 1..Len(s) : s[i] = c}

\* float(s) on a string of the alphabet: <<>> for ValueError, else <<ms>>.
\* float() ignores surrounding whitespace.
PyFloat(str) ==
    LET s == Strip(str)
        dots == Positions(s, ".")
    IN  IF Cardinality(dots) = 0
        THEN IF IsDigits(s) THEN <<1000 * DigitsVal(s)>> ELSE <<>>
        ELSE IF Cardinality(dots) > 1 THEN <<>>
        ELSE LET d == CHOOSE i \in dots : TRUE
                 whole == SubSeq(s, 1, d - 1)
                 frac == SubSeq(s, d + 1, Len(s))
             IN  IF /\ Len(whole) + Len(frac) >= 1
                    /\ \A i \in 1..Len(whole) : IsDigit(whole[i])
                    /\ \A i \in 1..Len(frac) : IsDigit(frac[i])
                 THEN <<1000 * DigitsVal(whole) + FracMs(frac)>>
                 ELSE <<>>

\* The seconds field of TIME_RE: \d+(?:\.\d+)?
IsSecondsField(s) ==
    LET dots == Positions(s, ".")
    IN  IF Cardinality(dots) = 0 THEN IsDigits(s)
        ELSE /\ Cardinality(dots) = 1
             /\ LET d == CHOOSE i \in dots : TRUE
                IN  IsDigits(SubSeq(s, 1, d - 1)) /\ IsDigits(SubSeq(s, d + 1, Len(s)))

\* TIME_RE.match(s).groups() as <<h, m_, s_>>, an unmatched group being <<>>;
\* <<>> when the string does not match.  The regular expression is
\*   ^(?:(\d+):)?(?:(\d{1,2}):)?(\d+(?:\.\d+)?)$
\* and its first optional group is tried first: with one colon the field before
\* it is h, with two colons the fields are h and m_.
TimeReGroups(s) ==
    LET colons == Positions(s, ":")
    IN  IF Cardinality(colons) = 0
        THEN IF IsSecondsField(s) THEN <<<<>>, <<>>, s>> ELSE <<>>
        ELSE IF Cardinality(colons) = 1
        THEN LET c == CHOOSE i \in colons : TRUE
                 x == SubSeq(s, 1, c - 1)
                 y == SubSeq(s, c + 1, Len(s))
             IN  IF IsDigits(x) /\ IsSecondsField(y) THEN <<x, <<>>, y>> ELSE <<>>
        ELSE IF Cardinality(colons) = 2
        THEN LET c1 == CHOOSE i \in colons : \A j \in colons : i <= j
                 c2 == CHOOSE i \in colons : \A j \in colons : i >= j
                 x == SubSeq(s, 1, c1 - 1)
                 y == SubSeq(s, c1 + 1, c2 - 1)
                 z == SubSeq(s, c2 + 1, Len(s))
             IN  IF IsDigits(x) /\ IsDigits(y) /\ Len(y) <= 2 /\ IsSecondsField(z)
                 THEN <<x, y, z>> ELSE <<>>
        ELSE <<>>

\* parse_time on a string with the "s" suffix tried before the "ms" suffix.
ParseTimeStrSecondsFirst(v) ==
    LET s == LowerStr(Strip(v))
        asS == PyFloat(SubSeq(s, 1, Len(s) - 1))
        m == TimeReGroups(s)
    IN  IF EndsWith(s, <<"s">>) /\ asS # <<>> THEN asS
        ELSE IF PyFloat(s) # <<>> THEN PyFloat(s)
        ELSE IF m # <<>>
        THEN <<PyFloat(m[3])[1]
               + (IF m[2] # <<>> THEN 60 * PyFloat(m[2])[1] ELSE 0)
               + (IF m[1] # <<>> THEN 3600 * PyFloat(m[1])[1] ELSE 0)>>
        ELSE <<>>

\* parse_time on a string.
ParseTimeStr(v) ==
    LET s == LowerStr(Strip(v))
        asMs == PyFloat(SubSeq(s, 1, Len(s) - 2))
        asS == PyFloat(SubSeq(s, 1, Len(s) - 1))
        m == TimeReGroups(s)
    IN  IF EndsWith(s, <<"m", "s">>)
        THEN IF asMs # <<>> THEN <<asMs[1] \div 1000>> ELSE <<>>
        ELSE IF EndsWith(s, <<"s">>) /\ asS # <<>> THEN asS
        ELSE IF PyFloat(s) # <<>> THEN PyFloat(s)
        ELSE IF m # <<>>
        THEN <<PyFloat(m[3])[1]
               + (IF m[2] # <<>> THEN 60 * PyFloat(m[2])[1] ELSE 0)
               + (IF m[1] # <<>> THEN 3600 * PyFloat(m[1])[1] ELSE 0)>>
        ELSE <<>>

DictTimeKeys ==
    <<"value", "val", "sec", "secs", "second", "seconds", "s", "ms", "start", "end",
      "t0", "t1", "time", "timestamp", "duration">>

\* The values parse_time tries on a dict, in order: d.get(k) for the keys of
\* DictTimeKeys, then the only value of a one-entry dict or else every value.
DictCandidates(kids) ==
    [i \in 1..Len(DictTimeKeys) |-> DictGet(kids, DictTimeKeys[i])]
    \o [i \in 1..Len(kids) |-> kids[i][2]]

\* parse_time: <<>> for None, else <<milliseconds>>.  FirstTime is a loop
\* "out = parse_time(...); if out is not None: return out" over the candidates
\* from number i on, OrNext its body.  A non-empty list is parsed as its first
\* element.
RECURSIVE parse_time(_)
RECURSIVE FirstTime(_, _)
RECURSIVE OrNext(_, _, _)

OrNext(out, cands, i) == IF out # <<>> THEN out ELSE FirstTime(cands, i + 1)

FirstTime(cands, i) ==
    IF i > Len(cands) THEN <<>> ELSE OrNext(parse_time(cands[i]), cands, i)

parse_time(v) ==
    IF v.kind = "null" THEN <<>>
    ELSE IF v.kind = "num" THEN <<v.num>>
    ELSE IF v.kind = "str" THEN ParseTimeStr(v.str)
    ELSE FirstTime(IF v.kind = "dict" THEN DictCandidates(v.kids)
                   ELSE [i \in 1..Len(SubSeq(v.kids, 1, 1)) |-> v.kids[i][2]], 1)

(***************************************************************************)
(* sequence_and_assemble_verbose: keys, paths, pull_time_any, load_items.  *)
(***************************************************************************)
DEFAULT_DUR == 2000

\* norm_key on the keys the model's records use: "-" and " " become "_", and
\* the key is lower-cased.
norm_key(k) ==
    IF k = "emb-start" THEN "emb_start"
    ELSE IF k = "emb-end" THEN "emb_end"
    ELSE IF k = "Emb End" THEN "emb_end"
    ELSE IF k = "File" THEN "file"
    ELSE k

NormOf(raw) == [i \in 1..Len(raw) |-> <<norm_key(raw[i][1]), raw[i][2]>>]

NESTED_HINT_KEYS == <<"base", "timing", "meta", "embedding", "range", "clip">>

\* resolve_path: <<>> for None, else <<[joined, p]>> where p is str(p) and joined
\* says that VIDEOS_IN was put in front.  The path and file values of the
\* model's records are strings or absent.
resolve_path(norm) ==
    LET p0 == DictGet(norm, "path")
        p == IF p0.kind = "null" /\ HasKey(norm, "file") THEN DictGet(norm, "file") ELSE p0
    IN  IF p.kind = "null" THEN <<>>
        ELSE IF Len(p.str) > 2 /\ p.str[2] = ":"
        THEN <<[joined |-> FALSE, p |-> p.str]>>
        ELSE <<[joined |-> TRUE, p |-> p.str]>>

\* The first <<label, value>> from number i on whose value parses, as
\* <<time, label>>; <<<<>>, <<"missing">>>> if none does.
RECURSIVE FirstParsed(_, _)
RECURSIVE LabelOrNext(_, _, _)

LabelOrNext(t, cands, i) ==
    IF t # <<>> THEN <<t, cands[i][1]>> ELSE FirstParsed(cands, i + 1)

FirstParsed(cands, i) ==
    IF i > Len(cands) THEN <<<<>>, <<"missing">>>>
    ELSE LabelOrNext(parse_time(cands[i][2]), cands, i)

\* What the body of the loop over NESTED_HINT_KEYS tries for one container:
\* nothing unless it is a dict, else cont.get(k) for the seven keys and then
\* every item of the container.
ContainerCandidates(raw, keys, cont_key) ==
    IF DictGet(raw, cont_key).kind # "dict" THEN <<>>
    ELSE [i \in 1..Len(keys) |->
             <<<<"nested", cont_key, keys[i]>>, DictGet(DictGet(raw, cont_key).kids, keys[i])>>]
         \o [i \in 1..Len(DictGet(raw, cont_key).kids) |->
                <<<<"nested", cont_key, DictGet(raw, cont_key).kids[i][1]>>,
                  DictGet(raw, cont_key).kids[i][2]>>]

\* The candidates of the loop over NESTED_HINT_KEYS, from container number c.
RECURSIVE NestedCandidates(_, _, _)
NestedCandidates(raw, keys, c) ==
    IF c > Len(NESTED_HINT_KEYS) THEN <<>>
    ELSE ContainerCandidates(raw, keys, NESTED_HINT_KEYS[c])
         \o NestedCandidates(raw, keys, c + 1)

\* The keys pull_time_any looks for: which, alt, literal.
AltKey(which) == IF which = "emb_start" THEN "t0" ELSE "t1"

LiteralKey(which) == IF which = "emb_start" THEN "start" ELSE "end"

\* pull_time_any: <<time, label>> with time <<>> for None.  The three loops
\* try their candidates in order and return at the first that parses.
pull_time_any(raw, norm, which) ==
    FirstParsed(
        << <<<<"top", which>>, DictGet(norm, which)>>,
           <<<<"top", AltKey(which)>>, DictGet(norm, AltKey(which))>>,
           <<<<"top", LiteralKey(which)>>, DictGet(raw, LiteralKey(which))>> >>
        \o NestedCandidates(raw, <<which, AltKey(which), LiteralKey(which),
                                   "start", "end", "time", "timestamp">>, 1)
        \o [i \in 1..Len(raw) |-> <<<<"scan_top", raw[i][1]>>, raw[i][2]>>],
        1)

\* load_items over the files from number i on: the items.  A file json.load
\* rejects is reported and skipped.  meta is the number of the file.
RECURSIVE LoadFrom(_, _)
LoadFrom(files, i) ==
    IF i > Len(files) THEN <<>>
    ELSE IF ~files[i].ok THEN LoadFrom(files, i + 1)
    ELSE LET raw == files[i].raw
             norm == NormOf(raw)
             p0 == pull_time_any(raw, norm, "emb_start")
             p1 == pull_time_any(raw, norm, "emb_end")
         IN  <<[meta |-> i, path |-> resolve_path(norm),
                t0 |-> p0[1], t1 |-> p1[1], src0 |-> p0[2], src1 |-> p1[2]]>>
             \o LoadFrom(files, i + 1)

\* load_items: [raw_items, problems]; problems are the numbers of the rejected
\* files, or <<0>> when the directory holds no .json file.
load_items(files) ==
    IF Len(files) = 0 THEN [raw_items |-> <<>>, problems |-> <<0>>]
    ELSE [raw_items |-> LoadFrom(files, 1),
          problems |-> SelectSeq([i \in 1..Len(files) |-> IF files[i].ok THEN 0 ELSE i],
                                 LAMBDA x : x # 0)]

(***************************************************************************)
(* String order, sorted(), apply_sequential_fallback, analyze.             *)
(***************************************************************************)
Alphabet ==
    <<" ", ".", "/", "0", "1", "2", "3", "4", "5", "6", "7", "8", "9", ":",
      "A", "M", "S", "a", "m", "s">>

\* Rank of a character in code point order.
Ord(c) == CHOOSE i \in 1..Len(Alphabet) : Alphabet[i] = c

\* s < t as Python compares strings.
RECURSIVE StrLess(_, _)
StrLess(s, t) ==
    IF Len(t) = 0 THEN FALSE
    ELSE IF Len(s) = 0 THEN TRUE
    ELSE IF Ord(s[1]) < Ord(t[1]) THEN TRUE
    ELSE IF Ord(s[1]) > Ord(t[1]) THEN FALSE
    ELSE StrLess(Tail(s), Tail(t))

\* Path(p).name: what follows the last "/".
PathName(p) ==
    LET slashes == Positions(p, "/")
    IN  IF slashes = {} THEN p
        ELSE SubSeq(p, (CHOOSE i \in slashes : \A j \in slashes : i >= j) + 1, Len(p))

\* The path of metadata file number i, as glob returns it.
MetaPath(i) == <<"/", Digits[i + 1]>>

\* The key of the sort in apply_sequential_fallback.
FallbackKey(it) ==
    IF it.path # <<>> THEN PathName(it.path[1].p) ELSE MetaPath(it.meta)

\* The key comparisons of the two sorts: by FallbackKey in
\* apply_sequential_fallback, by (t0, t1) in analyze.
KeyLess(by, x, y) ==
    IF by = "name" THEN StrLess(FallbackKey(x), FallbackKey(y))
    ELSE \/ x.t0[1] < y.t0[1]
         \/ x.t0[1] = y.t0[1] /\ x.t1[1] < y.t1[1]

\* sorted(s, key): stable insertion of x into an already sorted sequence.
RECURSIVE InsertSorted(_, _, _)
InsertSorted(sorted, x, by) ==
    IF Len(sorted) = 0 THEN <<x>>
    ELSE IF KeyLess(by, x, sorted[Len(sorted)])
    THEN Append(InsertSorted(SubSeq(sorted, 1, Len(sorted) - 1), x, by),
                sorted[Len(sorted)])
    ELSE Append(sorted, x)

RECURSIVE Sorted(_, _)
Sorted(s, by) ==
    IF Len(s) = 0 THEN <<>>
    ELSE InsertSorted(Sorted(SubSeq(s, 1, Len(s) - 1), by), s[Len(s)], by)

NeedFallback(its) == \E i \in 1..Len(its) : its[i].t0 = <<>> \/ its[i].t1 = <<>>

Slot(it, k) ==
    [meta |-> it.meta, path |-> it.path, t0 |-> <<k * DEFAULT_DUR>>,
     t1 |-> <<k * DEFAULT_DUR + DEFAULT_DUR>>, src0 |-> it.src0, src1 |-> it.src1]

ApplyFallbackPerRecord(its) ==
    IF ~NeedFallback(its) THEN [items |-> its, used |-> FALSE]
    ELSE LET items_sorted == Sorted(its, "name")
         IN  [items |-> [k \in 1..Len(items_sorted) |->
                            IF items_sorted[k].t0 = <<>> \/ items_sorted[k].t1 = <<>>
                            THEN Slot(items_sorted[k], k - 1)
                            ELSE items_sorted[k]],
              used |-> TRUE]

\* apply_sequential_fallback: [items, used].  t starts at 0.0 and grows by
\* DEFAULT_DUR per item, so item number k (from 0) gets t = k * DEFAULT_DUR.
apply_sequential_fallback(its) ==
    IF ~NeedFallback(its) THEN [items |-> its, used |-> FALSE]
    ELSE LET items_sorted == Sorted(its, "name")
         IN  [items |-> [k \in 1..Len(items_sorted) |-> Slot(items_sorted[k], k - 1)],
              used |-> TRUE]

\* analyze: the items sorted by (t0, t1); gaps and overlaps are only printed.
analyze(its) == Sorted(its, "time")

(***************************************************************************)
(* Idle values of the variables a specification does not use.              *)
(***************************************************************************)
IdleClip == [base |-> "", start_frame |-> NoFrame, end_frame |-> NoFrame]

ScoreIdle == clip_a = IdleClip /\ clip_b = IdleClip /\ score = <<>>

SeqIdle ==
    /\ clips = <<>>
    /\ sequence = <<>>
    /\ transitions = <<>>
    /\ smart_manifest = <<>>
    /\ loop_manifest = <<>>
    /\ seq_status = "idle"

NormIdle ==
    /\ meta_files = <<>>
    /\ raw_items = <<>>
    /\ items = <<>>
    /\ manifest_json = <<>>
    /\ norm_status = "idle"

ParseIdle == time_case = <<>> /\ time_out = <<>>

TrimIdle == trim_duration = 0 /\ trim_probe = <<>> /\ trim_result = <<>>

StitchIdle == stitch_items = <<>> /\ stitch_run = <<>>
MetaIdle == meta_record = <<>> /\ meta_item = <<>>
FilterIdle == filter_manifest = <<>> /\ filter_run = <<>>

(***************************************************************************)
(* The scorer on its own: one call on an arbitrary ordered pair.           *)
(***************************************************************************)
ScoreInit ==
    /\ clip_a \in [base : {"a"}, start_frame : {NoFrame}, end_frame : Frames]
    /\ clip_b \in [base : {"b"}, start_frame : Frames, end_frame : {NoFrame}]
    /\ score = <<>>
    /\ SeqIdle
    /\ NormIdle
    /\ ParseIdle
    /\ TrimIdle
    /\ StitchIdle
    /\ MetaIdle
    /\ FilterIdle

CalculateTransitionScore ==
    /\ score = <<>>
    /\ clip_a # IdleClip
    /\ score' = <<calculate_transition_score(clip_a, clip_b)>>
    /\ UNCHANGED <<clip_a, clip_b>>
    /\ UNCHANGED <<seqVars, normVars, parseVars, trimVars, stitchVars,
                   metaVars, filterVars>>

ScoreNext == CalculateTransitionScore

SpecScore == ScoreInit /\ [][ScoreNext]_vars

(***************************************************************************)
(* The sequencer and the loop trimmer.  The clips are the records          *)
(* load_metadata kept, in sorted file order; base and file are the index   *)
(* of the metadata file.  The frames come from a catalogue that holds the  *)
(* three clips of the end-to-end scenario (A, B, C), three clips whose     *)
(* pairwise scores hit 1.0, 0.8, 0.7 and 0.5, and a clip whose first and   *)
(* last frame differ.                                                      *)
(***************************************************************************)
Frame(subj, scene, light, mot, cols) ==
    [subject |-> subj, scene_type |-> scene, lighting |-> light, motion |-> mot,
     dominant_colors |-> cols]

FrameA == Frame(<<"person">>, "bedroom", "bright", "", <<>>)
FrameB == Frame(<<"person">>, "bedroom", "dim", "", <<>>)
FrameC == Frame(<<"object">>, "kitchen", "bright", "", <<>>)
FrameG1 == Frame(<<"person">>, "bedroom", "bright", "slow", <<"red">>)
FrameG2 == Frame(<<"person">>, "bedroom", "sunny", "slow", <<"blue">>)
FrameG3 == Frame(<<"object">>, "bedroom", "sunny", "slow", <<"blue">>)

Profile(f, g) == [start_frame |-> f, end_frame |-> g]

ClipProfiles ==
    {Profile(FrameA, FrameA), Profile(FrameB, FrameB), Profile(FrameC, FrameC),
     Profile(FrameG1, FrameG1), Profile(FrameG2, FrameG2), Profile(FrameG3, FrameG3),
     Profile(FrameG3, FrameA)}

MakeClips(ps) ==
    [i \in 1..Len(ps) |->
        [file |-> i, path |-> i, base |-> i,
         start_frame |-> ps[i].start_frame, end_frame |-> ps[i].end_frame]]

\* What the environment answers for one manifest item during loop trimming.
\* extract_frame raised; the frame was written and read, with this correlation
\* to the reference; extract_frame returned but cv2.imread gives None.
Raised == [raises |-> TRUE, readable |-> FALSE, sim |-> 0]
Compared(sim) == [raises |-> FALSE, readable |-> TRUE, sim |-> sim]
Unreadable == [raises |-> FALSE, readable |-> FALSE, sim |-> 0]
ProbeAll(duration, outcome) == [t \in ProbeTimes(duration) |-> outcome]

ItemEnvs ==
    {[exists |-> FALSE, duration |-> 5000, probe |-> ProbeAll(5000, Raised)],
     [exists |-> TRUE, duration |-> 5000, probe |-> ProbeAll(5000, Compared(600))],
     [exists |-> TRUE, duration |-> 1000, probe |-> ProbeAll(1000, Raised)]}

SeqInit ==
    /\ clips \in {MakeClips(ps) : ps \in SeqsUpTo(ClipProfiles, MaxClips)}
    /\ sequence = <<>>
    /\ transitions = <<>>
    /\ smart_manifest = <<>>
    /\ loop_manifest = <<>>
    /\ seq_status = "start"
    /\ ScoreIdle
    /\ NormIdle
    /\ ParseIdle
    /\ TrimIdle
    /\ StitchIdle
    /\ MetaIdle
    /\ FilterIdle

\* analyzer.find_optimal_sequence()
FindOptimalSequence ==
    /\ seq_status = "start"
    /\ sequence = <<>>
    /\ sequence' = <<find_optimal_sequence(clips)>>
    /\ UNCHANGED <<clips, transitions, smart_manifest, loop_manifest, seq_status>>
    /\ UNCHANGED <<scoreVars, normVars, parseVars, trimVars, stitchVars,
                   metaVars, filterVars>>

\* analyzer.generate_transitions(sequence)
GenerateTransitions ==
    /\ seq_status = "start"
    /\ sequence # <<>>
    /\ transitions = <<>>
    /\ transitions' = <<generate_transitions(sequence[1])>>
    /\ UNCHANGED <<clips, sequence, smart_manifest, loop_manifest, seq_status>>
    /\ UNCHANGED <<scoreVars, normVars, parseVars, trimVars, stitchVars,
                   metaVars, filterVars>>

\* smart_sequence_clips.main, which runs on the analyzer it has just constructed,
\* with no clip loaded: sys.exit(1), nothing written.
SequenceMainNoClips ==
    /\ seq_status = "start"
    /\ sequence = <<>>
    /\ Len(clips) = 0
    /\ seq_status' = "exit_no_clips"
    /\ UNCHANGED <<clips, sequence, transitions, smart_manifest, loop_manifest>>
    /\ UNCHANGED <<scoreVars, normVars, parseVars, trimVars, stitchVars,
                   metaVars, filterVars>>

\* smart_sequence_clips.main: create_smart_manifest writes smart_manifest.json.
SequenceMain ==
    /\ seq_status = "start"
    /\ sequence = <<>>
    /\ Len(clips) > 0
    /\ smart_manifest' = <<create_smart_manifest(clips)>>
    /\ seq_status' = "manifest_written"
    /\ UNCHANGED <<clips, sequence, transitions, loop_manifest>>
    /\ UNCHANGED <<scoreVars, normVars, parseVars, trimVars, stitchVars,
                   metaVars, filterVars>>

\* smart_loop_trimmer.main up to the end of
\* process_smart_manifest_with_loop_detection: the manifest is written, then the
\* average per clip is printed, which divides by the number of items kept.
TrimmerMain ==
    /\ seq_status = "manifest_written"
    /\ Len(smart_manifest[1].items) > 0
    /\ \E env \in [1..Len(smart_manifest[1].items) -> ItemEnvs] :
          LET out == process_smart_manifest_with_loop_detection(smart_manifest[1], env)
          IN  /\ loop_manifest' = <<out>>
              /\ seq_status' = IF Len(out.items) = 0 THEN "trim_zero_division"
                               ELSE "loop_manifest_written"
    /\ UNCHANGED <<clips, sequence, transitions, smart_manifest>>
    /\ UNCHANGED <<scoreVars, normVars, parseVars, trimVars, stitchVars,
                   metaVars, filterVars>>

SeqNext ==
    \/ FindOptimalSequence
    \/ GenerateTransitions
    \/ SequenceMainNoClips
    \/ SequenceMain
    \/ TrimmerMain

SpecSeq == SeqInit /\ [][SeqNext]_vars

(***************************************************************************)
(* The normalizer, sequence_and_assemble_verbose.main, step by step:       *)
(* load_items, apply_sequential_fallback, then the path check, analyze and *)
(* the write of manifest.json.  META_DIR holds up to MaxFiles files; each  *)
(* is a file json.load rejects or one of these records, for a video file   *)
(* name n:                                                                 *)
(*   measured    {"file": n, "emb_start": 1.0, "emb_end": "3s"}            *)
(*   described   {"file": n, "base": "a", "start": {...}, "end": {...}}    *)
(*               with descriptive objects, as analyze_clip.py writes them  *)
(*   start only  {"file": n, "start": 3}                                   *)
(*   frame rate  {"file": n, "fps": 24}                                    *)
(*   reversed    {"File": n, "emb-start": "5", "Emb End": 2}               *)
(*   nested      {"path": n, "timing": {"start": "1.5s", "end": "0:04"}}   *)
(*   no path     {"emb_start": 0, "emb_end": 2}                            *)
(***************************************************************************)
VideoNames == {<<"m">>, <<"a">>}

Described ==
    JDict(<< <<"subject", JStr(<<"a", " ", "m">>)>>,
             <<"dominant_colors", JList(<<JStr(<<"a">>)>>)>> >>)

RecordsFor(n) ==
    {<< <<"file", JStr(n)>>, <<"emb_start", JNum(1000)>>,
        <<"emb_end", JStr(<<"3", "s">>)>> >>,
     << <<"file", JStr(n)>>, <<"base", JStr(<<"a">>)>>, <<"start", Described>>,
        <<"end", Described>> >>,
     << <<"file", JStr(n)>>, <<"start", JNum(3000)>> >>,
     << <<"file", JStr(n)>>, <<"fps", JNum(24000)>> >>,
     << <<"File", JStr(n)>>, <<"emb-start", JStr(<<"5">>)>>, <<"Emb End", JNum(2000)>> >>,
     << <<"path", JStr(n)>>,
        <<"timing", JDict(<< <<"start", JStr(<<"1", ".", "5", "s">>)>>,
                             <<"end", JStr(<<"0", ":", "0", "4">>)>> >>)>> >>}

MetaFiles ==
    {[ok |-> FALSE, raw |-> <<>>],
     [ok |-> TRUE, raw |-> << <<"emb_start", JNum(0)>>, <<"emb_end", JNum(2000)>> >>]}
    \cup {[ok |-> TRUE, raw |-> r] : r \in UNION {RecordsFor(n) : n \in VideoNames}}

NormInit ==
    /\ meta_files \in SeqsUpTo(MetaFiles, MaxFiles)
    /\ raw_items = <<>>
    /\ items = <<>>
    /\ manifest_json = <<>>
    /\ norm_status = "start"
    /\ ScoreIdle
    /\ SeqIdle
    /\ ParseIdle
    /\ TrimIdle
    /\ StitchIdle
    /\ MetaIdle
    /\ FilterIdle

\* raw_items, problems = load_items(meta_dir)
LoadItems ==
    /\ norm_status = "start"
    /\ raw_items' = <<load_items(meta_files)>>
    /\ norm_status' = "loaded"
    /\ UNCHANGED <<meta_files, items, manifest_json>>
    /\ UNCHANGED <<scoreVars, seqVars, parseVars, trimVars, stitchVars,
                   metaVars, filterVars>>

\* items, used_fallback = apply_sequential_fallback(raw_items)
ApplySequentialFallback ==
    /\ norm_status = "loaded"
    /\ items' = <<apply_sequential_fallback(raw_items[1].raw_items)>>
    /\ norm_status' = "timed"
    /\ UNCHANGED <<meta_files, raw_items, manifest_json>>
    /\ UNCHANGED <<scoreVars, seqVars, parseVars, trimVars, stitchVars,
                   metaVars, filterVars>>

MissingPath(its) == \E i \in 1..Len(its) : its[i].path = <<>>

\* Some item has no path: sys.exit(3), nothing written.
ExitMissingPath ==
    /\ norm_status = "timed"
    /\ MissingPath(items[1].items)
    /\ norm_status' = "exit_missing_path"
    /\ UNCHANGED <<meta_files, raw_items, items, manifest_json>>
    /\ UNCHANGED <<scoreVars, seqVars, parseVars, trimVars, stitchVars,
                   metaVars, filterVars>>

\* No item at all: items[0] in the summary raises IndexError, nothing written.
CrashNoItems ==
    /\ norm_status = "timed"
    /\ ~MissingPath(items[1].items)
    /\ Len(items[1].items) = 0
    /\ norm_status' = "index_error"
    /\ UNCHANGED <<meta_files, raw_items, items, manifest_json>>
    /\ UNCHANGED <<scoreVars, seqVars, parseVars, trimVars, stitchVars,
                   metaVars, filterVars>>

\* analyze sorts the items, manifest.json is written, sys.exit(0).
WriteManifest ==
    /\ norm_status = "timed"
    /\ ~MissingPath(items[1].items)
    /\ Len(items[1].items) > 0
    /\ manifest_json' = <<analyze(items[1].items)>>
    /\ norm_status' = "written"
    /\ UNCHANGED <<meta_files, raw_items, items>>
    /\ UNCHANGED <<scoreVars, seqVars, parseVars, trimVars, stitchVars,
                   metaVars, filterVars>>

NormNext ==
    \/ LoadItems
    \/ ApplySequentialFallback
    \/ ExitMissingPath
    \/ CrashNoItems
    \/ WriteManifest

SpecNorm == NormInit /\ [][NormNext]_vars

(***************************************************************************)
(* parse_time on its own: one call on a value v.  The values are the       *)
(* representations of a number of seconds x (a multiple of 1 ms):          *)
(*   form "num"  the number x             form "s"   str(x) + "s"          *)
(*   form "str"  str(x)                   form "ms"  str(1000 * x) + "ms"  *)
(* bare, as the only value of a dict under one of the keys parse_time      *)
(* looks for, or as the only element of a list; and the clock strings      *)
(* "s", "m:s" and "h:m:s".                                                 *)
(***************************************************************************)
\* str(n) for a natural number n.
RECURSIVE NatStr(_)
NatStr(n) == IF n < 10 THEN <<Digits[n + 1]>> ELSE NatStr(n \div 10) \o <<Digits[(n % 10) + 1]>>

\* The digits after the decimal point of ms milliseconds, without trailing
\* zeros; <<>> for a whole number of seconds.
FracStr(ms) ==
    LET f == ms % 1000
    IN  IF f = 0 THEN <<>>
        ELSE IF f % 100 = 0 THEN <<".", Digits[(f \div 100) + 1]>>
        ELSE IF f % 10 = 0 THEN <<".", Digits[(f \div 100) + 1], Digits[((f \div 10) % 10) + 1]>>
        ELSE <<".", Digits[(f \div 100) + 1], Digits[((f \div 10) % 10) + 1], Digits[(f % 10) + 1]>>

\* The decimal numeral of ms milliseconds in seconds: 12500 is "12.5", 3000 is "3".
NumStr(ms) == NatStr(ms \div 1000) \o FracStr(ms)

\* A clock field written with two digits before the point: 2500 is "02.5".
TwoDigits(ms) == (IF ms < 10000 THEN <<"0">> ELSE <<>>) \o NumStr(ms)

TimeForms == {"num", "str", "s", "ms"}

SecondsValues == {0, 1500, 3000, 12500, 62500}

ReprCases ==
    [kind : {"repr"}, x : SecondsValues, form : TimeForms, wrap : {"none", "list"},
     key : {""}, h : {0}, m : {0}, fields : {0}]
    \cup [kind : {"repr"}, x : SecondsValues, form : TimeForms, wrap : {"dict"},
          key : Range(DictTimeKeys), h : {0}, m : {0}, fields : {0}]

ClockCases ==
    [kind : {"clock"}, x : {2500, 5000, 59000}, form : {""}, wrap : {""}, key : {""},
     h : {0, 1, 10}, m : {0, 1, 2, 59}, fields : {1, 2, 3}]

TimeCases == ReprCases \cup ClockCases

\* The value of one form of x.
FormValue(x, form) ==
    IF form = "num" THEN JNum(x)
    ELSE IF form = "str" THEN JStr(NumStr(x))
    ELSE IF form = "s" THEN JStr(NumStr(x) \o <<"s">>)
    ELSE JStr(NatStr(x) \o <<"m", "s">>)

\* The clock string of a case: its last one, two or three fields.
ClockStr(c) ==
    IF c.fields = 1 THEN NumStr(c.x)
    ELSE IF c.fields = 2 THEN NatStr(c.m) \o <<":">> \o TwoDigits(c.x)
    ELSE NatStr(c.h) \o <<":">> \o TwoDigits(1000 * c.m) \o <<":">> \o TwoDigits(c.x)

\* The value v that is passed to parse_time.
TimeValue(c) ==
    IF c.kind = "clock" THEN JStr(ClockStr(c))
    ELSE IF c.wrap = "dict" THEN JDict(<< <<c.key, FormValue(c.x, c.form)>> >>)
    ELSE IF c.wrap = "list" THEN JList(<<FormValue(c.x, c.form)>>)
    ELSE FormValue(c.x, c.form)

ParseInit ==
    /\ time_case \in {<<c>> : c \in TimeCases}
    /\ time_out = <<>>
    /\ ScoreIdle
    /\ SeqIdle
    /\ NormIdle
    /\ TrimIdle
    /\ StitchIdle
    /\ MetaIdle
    /\ FilterIdle

ParseTime ==
    /\ time_case # <<>>
    /\ time_out = <<>>
    /\ time_out' = <<parse_time(TimeValue(time_case[1]))>>
    /\ UNCHANGED time_case
    /\ UNCHANGED <<scoreVars, seqVars, normVars, trimVars, stitchVars,
                   metaVars, filterVars>>

ParseNext == ParseTime

SpecParse == ParseInit /\ [][ParseNext]_vars

(***************************************************************************)
(* find_clean_motion_segment on its own: one call on a clip of 0.1 s, or   *)
(* of 1 s to MaxSeconds s in steps of half a second.  The reference probe  *)
(* has its own outcome; the other probes have one outcome before a moment  *)
(* T of the clip and one from T on.                                        *)
(***************************************************************************)
Durations == {100} \cup {500 * k : k \in 2..(2 * MaxSeconds)}

ProbeOutcomes == {Raised, Unreadable, Compared(1000), Compared(900), Compared(600)}

TrimProbe(duration, ref, before, T, after) ==
    [t \in ProbeTimes(duration) |->
        IF t = 100 THEN ref ELSE IF t < T THEN before ELSE after]

TrimInit ==
    /\ trim_duration \in Durations
    /\ trim_probe \in {TrimProbe(trim_duration, ref, before, T, after) :
                          ref \in ProbeOutcomes, before \in ProbeOutcomes,
                          T \in ProbeTimes(trim_duration), after \in ProbeOutcomes}
    /\ trim_result = <<>>
    /\ ScoreIdle
    /\ SeqIdle
    /\ NormIdle
    /\ ParseIdle
    /\ StitchIdle
    /\ MetaIdle
    /\ FilterIdle

FindCleanMotionSegment ==
    /\ trim_duration > 0
    /\ trim_result = <<>>
    /\ trim_result' = <<[segment |-> find_clean_motion_segment(trim_duration, trim_probe),
                         issued |-> ProbesIssued(trim_duration, trim_probe)]>>
    /\ UNCHANGED <<trim_duration, trim_probe>>
    /\ UNCHANGED <<scoreVars, seqVars, normVars, parseVars, stitchVars,
                   metaVars, filterVars>>

TrimNext == FindCleanMotionSegment

SpecTrim == TrimInit /\ [][TrimNext]_vars

(***************************************************************************)
(* The five consumers of a manifest, each run once on an item list of up   *)
(* to MaxFiles items.  An item has a path ("" for none), t0 and t1; the    *)
(* file "missing.mp4" is not on disk.  stitch_run records which consumer   *)
(* ran, how it ended, and the paths it handed to ffmpeg as inputs, in the  *)
(* order of the -i arguments (or of the lines of concat.txt).              *)
(***************************************************************************)
StitchPaths == {"", "a.mp4", "b.mp4", "missing.mp4"}

StitchItemSet == [path : StitchPaths, t0 : {0, 2000}, t1 : {2000, 4000}]

OnDisk(path) == path # "missing.mp4"

\* keyf(a) <= keyf(b) on the tuples (float(t0), float(t1)).
KeyfAtMost(a, b) == a.t0 < b.t0 \/ (a.t0 = b.t0 /\ a.t1 <= b.t1)

\* sorted(items, key=keyf), which is stable: the item goes after every item
\* whose key is not greater.
RECURSIVE InsertByKeyf(_, _, _)
InsertByKeyf(done, it, i) ==
    IF i > Len(done) \/ ~KeyfAtMost(done[i], it)
    THEN SubSeq(done, 1, i - 1) \o <<it>> \o SubSeq(done, i, Len(done))
    ELSE InsertByKeyf(done, it, i + 1)

RECURSIVE SortedByKeyf(_, _)
SortedByKeyf(its, n) ==
    IF n = 0 THEN <<>> ELSE InsertByKeyf(SortedByKeyf(its, n - 1), its[n], 1)

HasPath(it) == it.path # ""
IsValidItem(it) == it.path # "" /\ OnDisk(it.path)
IsMissingItem(it) == it.path # "" /\ ~OnDisk(it.path)

PathsOf(its) == [i \in 1..Len(its) |-> IF its[i].path = "" THEN "None" ELSE its[i].path]

\* stitch_from_manifest.main.  Both modes hand over the same files in the same
\* order: concat.txt lists files, the trim mode walks the sorted items again.
stitch_from_manifest(its) ==
    LET sorted == SortedByKeyf(its, Len(its))
    IN  IF Len(its) = 0 THEN [outcome |-> "die", inputs |-> <<>>]
        ELSE IF SelectSeq(sorted, IsMissingItem) # <<>>
             THEN [outcome |-> "die", inputs |-> <<>>]
        ELSE IF SelectSeq(sorted, IsValidItem) = <<>>
             THEN [outcome |-> "die", inputs |-> <<>>]
        ELSE [outcome |-> "ffmpeg", inputs |-> PathsOf(SelectSeq(sorted, IsValidItem))]

\* smart_stitch_from_manifest.main, video_only_stitcher.main and
\* simple_cuts_stitcher.main: the valid items, in list order.
stitch_valid_items(its) ==
    IF Len(its) = 0 THEN [outcome |-> "die", inputs |-> <<>>]
    ELSE IF SelectSeq(its, IsValidItem) = <<>> THEN [outcome |-> "die", inputs |-> <<>>]
    ELSE [outcome |-> "ffmpeg", inputs |-> PathsOf(SelectSeq(its, IsValidItem))]

\* smart_loop_trimmer.create_trimmed_video: every item, str(item.get("path")).
create_trimmed_video(its) ==
    IF Len(its) = 0 THEN [outcome |-> "die", inputs |-> <<>>]
    ELSE [outcome |-> "ffmpeg", inputs |-> PathsOf(its)]

StitchInit ==
    /\ stitch_items \in SeqsUpTo(StitchItemSet, MaxFiles)
    /\ stitch_run = <<>>
    /\ ScoreIdle
    /\ SeqIdle
    /\ NormIdle
    /\ ParseIdle
    /\ TrimIdle
    /\ MetaIdle
    /\ FilterIdle

StitchRan(consumer, result) ==
    /\ stitch_run = <<>>
    /\ stitch_run' = <<[consumer |-> consumer, outcome |-> result.outcome,
                        inputs |-> result.inputs]>>
    /\ UNCHANGED stitch_items
    /\ UNCHANGED <<scoreVars, seqVars, normVars, parseVars, trimVars,
                   metaVars, filterVars>>

StitchFromManifest == StitchRan("stitch_from_manifest", stitch_from_manifest(stitch_items))

SmartStitchFromManifest ==
    StitchRan("smart_stitch_from_manifest", stitch_valid_items(stitch_items))

VideoOnlyStitcher == StitchRan("video_only_stitcher", stitch_valid_items(stitch_items))

SimpleCutsStitcher == StitchRan("simple_cuts_stitcher", stitch_valid_items(stitch_items))

CreateTrimmedVideo == StitchRan("create_trimmed_video", create_trimmed_video(stitch_items))

StitchNext ==
    \/ StitchFromManifest
    \/ SmartStitchFromManifest
    \/ VideoOnlyStitcher
    \/ SimpleCutsStitcher
    \/ CreateTrimmedVideo

SpecStitch == StitchInit /\ [][StitchNext]_vars

(***************************************************************************)
(* sequence_and_assemble.load_meta_files on one metadata file.  norm is    *)
(* the dict after norm_key, as a record of JSON values (None for a key     *)
(* that is absent).  Numbers are in thousandths: times in milliseconds,    *)
(* fps and frames in thousandths of a unit; frames_i is a whole count.     *)
(***************************************************************************)
COERCE_KEYS == <<"value", "val", "sec", "secs", "second", "seconds", "s", "start", "end">>

\* The values coerce_float tries for a dict, in order: v[k] for each listed key
\* that is in v, then the only value of a one-entry dict.
CoerceCandidates(pairs) ==
    LET present == SelectSeq(COERCE_KEYS, LAMBDA k : HasKey(pairs, k))
    IN  [i \in 1..Len(present) |-> DictGet(pairs, present[i])]
        \o (IF Len(pairs) = 1 THEN <<pairs[1][2]>> ELSE <<>>)

RECURSIVE CoerceFirst(_, _)
RECURSIVE coerce_float(_)
CoerceOrNext(out, cands, i) == IF out # <<>> THEN out ELSE CoerceFirst(cands, i + 1)

CoerceFirst(cands, i) ==
    IF i > Len(cands) THEN <<>> ELSE CoerceOrNext(coerce_float(cands[i]), cands, i)

\* coerce_float(v) with f = None: <<>> for None, else <<thousandths>>.
coerce_float(v) ==
    IF v.kind = "null" THEN <<>>
    ELSE IF v.kind = "num" THEN <<v.num>>
    ELSE IF v.kind = "str" THEN PyFloat(Strip(v.str))
    ELSE CoerceFirst(IF v.kind = "dict" THEN CoerceCandidates(v.kids)
                     ELSE IF Len(v.kids) = 0 THEN <<>> ELSE <<v.kids[1][2]>>, 1)

\* int(round(x)) for x >= 0: Python rounds a half to the even neighbour.
coerce_int(v) ==
    LET x == coerce_float(v)
        q == x[1] \div 1000
        r == x[1] % 1000
    IN  IF x = <<>> THEN <<>>
        ELSE IF r > 500 \/ (r = 500 /\ q % 2 = 1) THEN <<q + 1>> ELSE <<q>>

\* The same record read with frames/fps tried before duration.
LoadMetaFramesFirst(norm) ==
    LET t0 == coerce_float(norm.emb_start)
        end == coerce_float(norm.emb_end)
        fps_f == coerce_float(norm.fps)
        frames_i == coerce_int(norm.frames)
        dur_f == coerce_float(norm.duration)
        t1 == IF end # <<>> THEN end
              ELSE IF frames_i # <<>> /\ fps_f # <<>> /\ fps_f # <<0>> /\ t0 # <<>>
                   THEN <<t0[1] + (frames_i[1] * 1000000) \div fps_f[1]>>
              ELSE IF dur_f # <<>> /\ t0 # <<>> THEN <<t0[1] + dur_f[1]>>
              ELSE <<>>
    IN  [ok |-> norm.path.kind # "null" /\ t0 # <<>> /\ t1 # <<>>,
         emb_start |-> t0, emb_end |-> t1,
         fps |-> fps_f, frames |-> frames_i, duration |-> dur_f]

\* The body of the loop of load_meta_files for one file: the item that is
\* appended (ok) or the values a problem is reported for.
load_meta_record(norm) ==
    LET t0 == coerce_float(norm.emb_start)
        end == coerce_float(norm.emb_end)
        fps_f == coerce_float(norm.fps)
        frames_i == coerce_int(norm.frames)
        dur_f == coerce_float(norm.duration)
        t1 == IF end # <<>> THEN end
              ELSE IF dur_f # <<>> /\ t0 # <<>> THEN <<t0[1] + dur_f[1]>>
              ELSE IF frames_i # <<>> /\ fps_f # <<>> /\ fps_f # <<0>> /\ t0 # <<>>
                   THEN <<t0[1] + (frames_i[1] * 1000000) \div fps_f[1]>>
              ELSE <<>>
    IN  [ok |-> norm.path.kind # "null" /\ t0 # <<>> /\ t1 # <<>>,
         emb_start |-> t0, emb_end |-> t1,
         fps |-> fps_f, frames |-> frames_i, duration |-> dur_f]

\* The metadata files the model reads: for each key a JSON value together with
\* the number it stands for (<<>> when it stands for none).
Means(json, means) == [json |-> json, means |-> means]

MetaCases ==
    [path : {Means(JNull, <<>>), Means(JStr(<<"a">>), <<>>)},
     emb_start : {Means(JNull, <<>>), Means(JNum(1000), <<1000>>),
                  Means(JStr(<<" ", "1", ".", "5", " ">>), <<1500>>),
                  Means(JDict(<<<<"start", JNum(2000)>>>>), <<2000>>)},
     emb_end : {Means(JNull, <<>>), Means(JNum(9000), <<9000>>),
                Means(JStr(<<"n", "/", "a">>), <<>>),
                Means(JList(<<JNum(8000)>>), <<8000>>)},
     duration : {Means(JNull, <<>>), Means(JNum(3000), <<3000>>),
                 Means(JStr(<<"3", ".", "5">>), <<3500>>), Means(JList(<<>>), <<>>)},
     frames : {Means(JNull, <<>>), Means(JNum(50000), <<50>>),
               Means(JNum(49500), <<50>>), Means(JNum(50500), <<50>>)},
     fps : {Means(JNull, <<>>), Means(JNum(0), <<0>>), Means(JNum(25000), <<25000>>)}]

MetaInit ==
    /\ meta_record \in MetaCases
    /\ meta_item = <<>>
    /\ ScoreIdle
    /\ SeqIdle
    /\ NormIdle
    /\ ParseIdle
    /\ TrimIdle
    /\ StitchIdle
    /\ FilterIdle

LoadMetaFile ==
    /\ meta_record # <<>>
    /\ meta_item = <<>>
    /\ meta_item' = <<load_meta_record([k \in DOMAIN meta_record |-> meta_record[k].json])>>
    /\ UNCHANGED meta_record
    /\ UNCHANGED <<scoreVars, seqVars, normVars, parseVars, trimVars, stitchVars,
                   filterVars>>

MetaNext == LoadMetaFile

SpecMeta == MetaInit /\ [][MetaNext]_vars

(***************************************************************************)
(* smart_stitch_from_manifest.main on smart_manifest.json, from the list   *)
(* of items to the filter graph.  An item is its path, which is its        *)
(* position in the manifest, and whether the file is on disk.  transitions *)
(* is not empty unless there is one item, so main calls                    *)
(* build_transition_filter; for one item its own concat is the same graph. *)
(* The graph is kept as what it refers to: streams is the                  *)
(* number of inputs that get labels v0.. and a0.., and each join names its *)
(* kind, its duration and the index of the stream it appends.              *)
(***************************************************************************)
TransitionKinds ==
    {[type |-> "cut", duration |-> 0], [type |-> "crossfade", duration |-> 500],
     [type |-> "fade_black", duration |-> 300]}

\* The branch build_transition_filter takes for one transition.
JoinKind(transition) ==
    IF transition.type = "crossfade" /\ transition.duration > 0 THEN "crossfade"
    ELSE IF transition.type = "fade_black" /\ transition.duration > 0 THEN "fade_black"
    ELSE "cut"

\* build_transition_filter(items, transitions).  Without transitions all
\* streams go into one concat; otherwise transition i (from 0) joins the chain
\* so far with stream i + 1.
build_transition_filter(its, trs) ==
    [streams |-> Len(its),
     concat |-> IF Len(trs) = 0 THEN Len(its) ELSE 0,
     joins |-> [i \in 1..Len(trs) |->
                  [kind |-> JoinKind(trs[i]), duration |-> trs[i].duration,
                   next_idx |-> i]]]

\* main from the parsed manifest on: the valid items, the inputs, the graph.
smart_stitch_main(manifest) ==
    LET valid_items == SelectSeq(manifest.items, LAMBDA item : item.exists)
    IN  IF Len(manifest.items) = 0 \/ Len(valid_items) = 0
        THEN [outcome |-> "die", inputs |-> <<>>, valid |-> <<>>,
              graph |-> build_transition_filter(<<>>, <<>>)]
        ELSE [outcome |-> "ffmpeg",
              inputs |-> [i \in 1..Len(valid_items) |-> valid_items[i].path],
              valid |-> valid_items,
              graph |-> build_transition_filter(valid_items, manifest.transitions)]

\* The manifests create_smart_manifest writes for up to MaxFiles clips, one
\* transition less than items, with any of the files gone since.
FilterManifests ==
    UNION {[items : {its \in [1..n -> [path : 1..n, exists : BOOLEAN]] :
                        \A i \in 1..n : its[i].path = i},
            transitions : [1..(n - 1) -> TransitionKinds]] : n \in 1..MaxFiles}

FilterInit ==
    /\ filter_manifest \in FilterManifests
    /\ filter_run = <<>>
    /\ ScoreIdle
    /\ SeqIdle
    /\ NormIdle
    /\ ParseIdle
    /\ TrimIdle
    /\ StitchIdle
    /\ MetaIdle

SmartStitchMain ==
    /\ filter_manifest # <<>>
    /\ filter_run = <<>>
    /\ filter_run' = <<smart_stitch_main(filter_manifest)>>
    /\ UNCHANGED filter_manifest
    /\ UNCHANGED <<scoreVars, seqVars, normVars, parseVars, trimVars, stitchVars,
                   metaVars>>

FilterNext == SmartStitchMain

SpecFilter == FilterInit /\ [][FilterNext]_vars

(***************************************************************************)
(*                              The claims                                 *)
(***************************************************************************)

\* Position in the input list of a clip of the model (base is that index).
InputIndex(c) == c.base

\* C1: find_optimal_sequence returns every input record exactly once, and
\* generate_transitions on it returns N-1 transitions for N >= 1, none for N <= 1
\* (N = 0: empty sequence, no transitions).
SequenceIsPermutation ==
    /\ sequence # <<>> =>
          /\ Len(sequence[1]) = Len(clips)
          /\ \A i \in 1..Len(clips) :
                Cardinality({k \in 1..Len(sequence[1]) : sequence[1][k] = clips[i]}) = 1
    /\ transitions # <<>> =>
          /\ Len(clips) >= 1 => Len(transitions[1]) = Len(clips) - 1
          /\ Len(clips) <= 1 => Len(transitions[1]) = 0

WitnessReorderedTour ==
    /\ sequence # <<>>
    /\ transitions # <<>>
    /\ Len(clips) >= 3
    /\ sequence[1][2] = clips[3]
    /\ Len(transitions[1]) = 2

\* C2: the returned sequence starts with the first input record, and each later
\* position holds a clip of maximal score from its predecessor among the clips
\* not yet placed, the earliest of them in input order when several are maximal.
GreedyNearestNeighbour ==
    sequence # <<>> =>
        LET seq == sequence[1]
        IN  /\ Len(clips) >= 1 => seq[1] = clips[1]
            /\ \A k \in 2..Len(seq) :
                  LET placed == {InputIndex(seq[j]) : j \in 1..(k - 1)}
                      unplaced == (1..Len(clips)) \ placed
                      best == calculate_transition_score(seq[k - 1], seq[k])
                  IN  /\ InputIndex(seq[k]) \in unplaced
                      /\ seq[k] = clips[InputIndex(seq[k])]
                      /\ \A i \in unplaced :
                            /\ calculate_transition_score(seq[k - 1], clips[i]) <= best
                            /\ calculate_transition_score(seq[k - 1], clips[i]) = best
                                  => InputIndex(seq[k]) <= i

WitnessTieBrokenByInputOrder ==
    /\ sequence # <<>>
    /\ Len(clips) = 3
    /\ sequence[1][2] = clips[2]
    /\ calculate_transition_score(clips[1], clips[2])
          = calculate_transition_score(clips[1], clips[3])
    /\ clips[2].start_frame # clips[3].start_frame

\* C3: kind and duration of every transition follow from its score alone:
\* above 0.8 a cut of 0 s, above 0.5 up to 0.8 a crossfade of 0.5 s, up to 0.5 a
\* fade_black of 0.3 s; 0.8 itself is a crossfade and 0.5 itself a fade_black.
TransitionsClassifiedByScore ==
    transitions # <<>> =>
        \A i \in 1..Len(transitions[1]) :
            LET t == transitions[1][i]
            IN  /\ t.score = calculate_transition_score(sequence[1][i], sequence[1][i + 1])
                /\ 5 * t.score > 4 * Scale => t.type = "cut" /\ t.duration = 0
                /\ (2 * t.score > Scale /\ 5 * t.score <= 4 * Scale)
                      => t.type = "crossfade" /\ t.duration = 500
                /\ 2 * t.score <= Scale => t.type = "fade_black" /\ t.duration = 300

WitnessBoundaryScores ==
    /\ transitions # <<>>
    /\ Len(transitions[1]) = 2
    /\ 5 * transitions[1][1].score = 4 * Scale
    /\ transitions[1][1].type = "crossfade"
    /\ 2 * transitions[1][2].score = Scale
    /\ transitions[1][2].type = "fade_black"

\* C4: the score of every ordered pair lies in [0, 1], whatever is present,
\* empty or missing on either side.
ScoreInUnitInterval ==
    score # <<>> => (score[1] >= 0 /\ score[1] <= Scale)

WitnessScoreWithMissingAttributes ==
    /\ score # <<>>
    /\ clip_a.end_frame.subject # <<>>
    /\ clip_b.start_frame.subject = <<>>
    /\ clip_a.end_frame.motion = ""
    /\ clip_b.start_frame.dominant_colors = <<>>
    /\ clip_a.end_frame.lighting = "dim"
    /\ clip_b.start_frame.lighting = "bright"
    /\ score[1] > 0
    /\ score[1] < Scale

AllNonEmpty(f) ==
    /\ f.subject # <<>>
    /\ f.scene_type # ""
    /\ f.lighting # ""
    /\ f.motion # ""
    /\ f.dominant_colors # <<>>

\* C5: identical attributes, all of them non-empty, score exactly 1.0, also when
\* the list of dominant colours repeats a colour.
IdenticalFramesScoreOne ==
    (score # <<>> /\ clip_a.end_frame = clip_b.start_frame
       /\ AllNonEmpty(clip_a.end_frame))
        => score[1] = Scale

\* C6: a factor whose attribute is missing or empty on one side or on both
\* contributes half of the factor's weight.
MissingAttributeIsNeutral ==
    score # <<>> =>
        LET a == clip_a.end_frame
            b == clip_b.start_frame
        IN  /\ (a.subject = <<>> \/ b.subject = <<>>)
                  => 2 * SubjectCredit(a, b) = SubjectWeight
            /\ (a.scene_type = "" \/ b.scene_type = "")
                  => 2 * SceneCredit(a, b) = SceneWeight
            /\ (a.lighting = "" \/ b.lighting = "")
                  => 2 * LightingCredit(a, b) = LightingWeight
            /\ (a.motion = "" \/ b.motion = "")
                  => 2 * MotionCredit(a, b) = MotionWeight
            /\ (a.dominant_colors = <<>> \/ b.dominant_colors = <<>>)
                  => 2 * ColorCredit(a, b) = ColorWeight

SameFrames(c, f) == c.start_frame = f /\ c.end_frame = f

IsScenarioABC ==
    /\ Len(clips) = 3
    /\ SameFrames(clips[1], FrameA)
    /\ \/ SameFrames(clips[2], FrameB) /\ SameFrames(clips[3], FrameC)
       \/ SameFrames(clips[2], FrameC) /\ SameFrames(clips[3], FrameB)

\* C7: for the clips A, B, C of the end-to-end scenario, given as A, B, C or as
\* A, C, B, the sequence is A, B, C, the first transition is a crossfade or a
\* cut and the second a fade_black.
ScenarioOrderABC ==
    IsScenarioABC =>
        /\ sequence # <<>> =>
              /\ Len(sequence[1]) = 3
              /\ SameFrames(sequence[1][1], FrameA)
              /\ SameFrames(sequence[1][2], FrameB)
              /\ SameFrames(sequence[1][3], FrameC)
        /\ transitions # <<>> =>
              /\ Len(transitions[1]) = 2
              /\ transitions[1][1].type \in {"crossfade", "cut"}
              /\ transitions[1][2].type = "fade_black"

WitnessScenarioACB ==
    /\ IsScenarioABC
    /\ SameFrames(clips[2], FrameC)
    /\ sequence # <<>>
    /\ transitions # <<>>
    /\ sequence[1][2] = clips[3]
    /\ transitions[1][1].type = "crossfade"

\* C8: every written manifest that carries transitions has one transition less
\* than it has items.
ManifestItemsMinusOneTransitions ==
    /\ smart_manifest # <<>> =>
          Len(smart_manifest[1].items) - 1 = Len(smart_manifest[1].transitions)
    /\ loop_manifest # <<>> =>
          Len(loop_manifest[1].items) - 1 = Len(loop_manifest[1].transitions)

\* C9: apply_sequential_fallback decides for the whole batch.  With a record
\* whose t0 or t1 is unresolved, the output holds every record once, in file
\* name order (input order among equal names), and the k-th of them (from 0)
\* gets (k * DEFAULT_DUR, (k + 1) * DEFAULT_DUR); with none, the output is the
\* input, bounds and order unchanged.
FallbackIsAllOrNothing ==
    items # <<>> =>
        LET inp == raw_items[1].raw_items
            out == items[1].items
        IN  IF \E i \in 1..Len(inp) : inp[i].t0 = <<>> \/ inp[i].t1 = <<>>
            THEN /\ items[1].used
                 /\ Len(out) = Len(inp)
                 /\ \A i \in 1..Len(inp) :
                       \E k \in 1..Len(out) :
                           out[k].meta = inp[i].meta /\ out[k].path = inp[i].path
                 /\ \A k \in 1..Len(out) :
                       /\ out[k].t0 = <<(k - 1) * DEFAULT_DUR>>
                       /\ out[k].t1 = <<k * DEFAULT_DUR>>
                 /\ \A k, l \in 1..Len(out) :
                       k < l =>
                          \/ StrLess(FallbackKey(out[k]), FallbackKey(out[l]))
                          \/ /\ FallbackKey(out[k]) = FallbackKey(out[l])
                             /\ out[k].meta < out[l].meta
            ELSE ~items[1].used /\ out = inp

WitnessMeasuredRecordRetimed ==
    /\ items # <<>>
    /\ items[1].used
    /\ Len(items[1].items) = 3
    /\ raw_items[1].raw_items[1].t0 = <<1000>>
    /\ raw_items[1].raw_items[1].t1 = <<3000>>
    /\ raw_items[1].raw_items[2].t0 = <<>>
    /\ items[1].items[1].meta = 3
    /\ items[1].items[3].meta = 1
    /\ items[1].items[3].t0 = <<2 * DEFAULT_DUR>>

\* C10: every record of manifest.json has t1 > t0.
ManifestBoundsIncrease ==
    manifest_json # <<>> =>
        \A k \in 1..Len(manifest_json[1]) :
            manifest_json[1][k].t1[1] > manifest_json[1][k].t0[1]

\* A batch that has a record with a path and a record without one.
MixedBatch(its) ==
    /\ \E i \in 1..Len(its) : its[i].path # <<>>
    /\ \E i \in 1..Len(its) : its[i].path = <<>>

\* C11: when the batch has a record with a path and a record without one, the
\* run is not aborted: manifest.json is written and holds exactly the records
\* that have a path.
PathlessRecordsExcluded ==
    (items # <<>> /\ MixedBatch(items[1].items) /\ norm_status # "timed") =>
        /\ norm_status = "written"
        /\ manifest_json # <<>>
        /\ {manifest_json[1][k].meta : k \in 1..Len(manifest_json[1])}
              = {items[1].items[i].meta :
                    i \in {j \in 1..Len(items[1].items) : items[1].items[j].path # <<>>}}

\* The seconds a clock string stands for under the grammar [[h:]m:]s, in
\* milliseconds.
ClockSeconds(c) ==
    c.x + (IF c.fields >= 2 THEN 60000 * c.m ELSE 0)
        + (IF c.fields = 3 THEN 3600000 * c.h ELSE 0)

\* C12: parse_time reads a clock string by the grammar [[h:]m:]s: "s" is s
\* seconds, "m:s" is 60*m + s seconds, "h:m:s" is 3600*h + 60*m + s seconds.
ClockStringGrammar ==
    (time_out # <<>> /\ time_case[1].kind = "clock") =>
        time_out[1] = <<ClockSeconds(time_case[1])>>

MotionEndAtMostEightyFivePercent ==
    trim_result # <<>> =>
        20 * (trim_result[1].segment[1] + trim_result[1].segment[2]) <= 17 * trim_duration

\* C16: clean_duration is at least 1.0 s, also when the reference frame cannot
\* be extracted.
CleanDurationAtLeastOneSecond ==
    trim_result # <<>> => trim_result[1].segment[2] >= 1000

\* The probes with every unreadable frame but the reference turned into a
\* probe that contributes nothing.
Silenced(probe) ==
    [t \in DOMAIN probe |->
        IF t # 100 /\ ~probe[t].raises /\ ~probe[t].readable THEN Raised ELSE probe[t]]

\* C17: a failed probe of the end scan, raised or unreadable, contributes a
\* strength of 0: with a readable reference, motion_strength and motion_end are
\* what the successful probes alone give.
FailedProbeHasNoStrength ==
    (trim_result # <<>> /\ trim_probe[100].readable) =>
        LET seg == trim_result[1].segment
            start0 == StartScan(trim_duration, trim_probe, 1)
            quiet == EndScan(ArangeStop(trim_duration, start0 + 500),
                             Silenced(trim_probe), start0 + 500,
                             (7 * trim_duration) \div 10, 0)
        IN  /\ seg[3] = quiet[2]
            /\ seg[1] + seg[2]
                 = Max(Min(quiet[1], (17 * trim_duration) \div 20), seg[1] + 1000)

\* C18: no failed probe aborts the scan: after the reference every probe of the
\* ladder and of the end scan is issued, and the result is the clamped one.
ProbeFailureDoesNotAbortScan ==
    trim_result # <<>> =>
        /\ trim_result[1].issued = <<100>> \o ScanIssued(trim_duration, trim_probe)
        /\ trim_result[1].segment = ClampedSegment(trim_duration, trim_probe)

\* Whether outs is ins with some items left out and the others refined in
\* place: position k of outs comes from position f[k] of ins, f increasing.
RefinedInOrder(ins, outs) ==
    \E f \in [1..Len(outs) -> 1..Len(ins)] :
        /\ \A j, k \in 1..Len(outs) : j < k => f[j] < f[k]
        /\ \A k \in 1..Len(outs) :
              /\ outs[k].path = ins[f[k]].path
              /\ outs[k].t0 = ins[f[k]].t0

\* C19: the refined manifest lists its items in the relative order of the smart
\* manifest, each with the path and t0 it had, with original_duration and
\* clean_duration, and with t1 = t0 + clean_duration.
LoopTrimKeepsOrder ==
    loop_manifest # <<>> =>
        LET outs == loop_manifest[1].items
        IN  /\ RefinedInOrder(smart_manifest[1].items, outs)
            /\ \A k \in 1..Len(outs) :
                  /\ {"original_duration", "clean_duration"} \subseteq DOMAIN outs[k]
                  /\ outs[k].t1 = outs[k].t0 + outs[k].clean_duration

WitnessMiddleItemDropped ==
    /\ loop_manifest # <<>>
    /\ Len(smart_manifest[1].items) = 3
    /\ Len(loop_manifest[1].items) = 2
    /\ loop_manifest[1].items[1].path = smart_manifest[1].items[1].path
    /\ loop_manifest[1].items[2].path = smart_manifest[1].items[3].path
    /\ loop_manifest[1].items[2].clean_duration
          < loop_manifest[1].items[2].original_duration

\* The items a consumer keeps: stitch_from_manifest those with a path,
\* create_trimmed_video all, the other three those whose file is on disk.
KeptBy(consumer, its) ==
    IF consumer = "stitch_from_manifest" THEN SelectSeq(its, HasPath)
    ELSE IF consumer = "create_trimmed_video" THEN its
    ELSE SelectSeq(its, IsValidItem)

\* C20: whichever consumer ran, the inputs it handed to the encoder are the
\* paths of the items it keeps, in manifest list order.
InputsInListOrder ==
    (stitch_run # <<>> /\ stitch_run[1].outcome = "ffmpeg") =>
        stitch_run[1].inputs = PathsOf(KeptBy(stitch_run[1].consumer, stitch_items))

\* The same for the four consumers other than stitch_from_manifest.
OtherConsumersKeepListOrder ==
    (stitch_run # <<>> /\ stitch_run[1].outcome = "ffmpeg"
        /\ stitch_run[1].consumer # "stitch_from_manifest") =>
        stitch_run[1].inputs = PathsOf(KeptBy(stitch_run[1].consumer, stitch_items))

\* C21: no stage writes a manifest with an empty item list: neither
\* smart_manifest.json nor smart_manifest_loop_trimmed.json is ever written
\* with zero items.
NoEmptyManifestWritten ==
    /\ smart_manifest # <<>> => Len(smart_manifest[1].items) > 0
    /\ loop_manifest # <<>> => Len(loop_manifest[1].items) > 0

\* The ladder positions that are probed at all when no probe qualifies: those
\* before the first candidate that is >= 0.8 * duration.
LadderReach(duration) ==
    {i \in 1..5 : \A j \in 1..i : 5 * (200 * j) < 4 * duration}

\* The ladder positions whose probe returns a similarity below 0.85.
LadderQualifies(duration, probe) ==
    {i \in LadderReach(duration) :
        /\ ~probe[200 * i].raises
        /\ (IF probe[100].readable /\ probe[200 * i].readable
            THEN Max(0, probe[200 * i].sim) ELSE 0) < 850}

\* motion_start before the clamps, as the start scan is described.
ExpectedMotionStart(duration, probe) ==
    IF LadderQualifies(duration, probe) = {} THEN duration \div 10
    ELSE 200 * (CHOOSE i \in LadderQualifies(duration, probe) :
                    \A j \in LadderQualifies(duration, probe) : i <= j)

\* The ladder probes that description issues: in ascending order up to the
\* first that qualifies, or all that are reached.
ExpectedLadder(duration, probe) ==
    LET last == IF LadderQualifies(duration, probe) = {}
                THEN Cardinality(LadderReach(duration))
                ELSE ExpectedMotionStart(duration, probe) \div 200
    IN  [i \in 1..last |-> 200 * i]

EndSamples(duration, start) ==
    {start + 150 * k : k \in 0..(duration \div 150)} \cap start..((17 * duration) \div 20 - 1)

\* The dissimilarity 1 - similarity of the probe at t, for a probe that returns.
Dissimilarity(probe, t) ==
    1000 - (IF probe[100].readable /\ probe[t].readable THEN Max(0, probe[t].sim) ELSE 0)

\* <<motion_end before the clamps, motion_strength>> by that description, from
\* the samples whose probe returns.
ExpectedEnd(duration, probe, start) ==
    LET scored == {t \in EndSamples(duration, start) : ~probe[t].raises}
        peak == IF scored = {} THEN 0
                ELSE CHOOSE x \in {Dissimilarity(probe, t) : t \in scored} :
                        \A t \in scored : Dissimilarity(probe, t) <= x
        at == {t \in scored : Dissimilarity(probe, t) = peak}
    IN  IF peak = 0 THEN <<(7 * duration) \div 10, 0>>
        ELSE <<(CHOOSE t \in at : \A u \in at : t <= u) + 200, peak>>

\* C23: when the reference frame is extracted, the end scan probes every 0.15 s
\* from motion_start + 0.5 s up to, excluding, 0.85 * duration; motion_end before
\* the clamps is the time of the earliest probe with the greatest dissimilarity
\* plus 0.2 s and motion_strength is that dissimilarity; with no dissimilarity
\* above 0 they are 0.7 * duration and 0.
EndScanEarliestPeak ==
    (trim_result # <<>> /\ ~trim_probe[100].raises) =>
        LET start0 == StartScan(trim_duration, trim_probe, 1)
            expected == ExpectedEnd(trim_duration, trim_probe, start0 + 500)
            seg == trim_result[1].segment
            issued == trim_result[1].issued
            ladder == Len(LadderIssued(trim_duration, trim_probe, 1))
        IN  /\ seg[3] = expected[2]
            /\ seg[1] + seg[2]
                 = Max(Min(expected[1], (17 * trim_duration) \div 20), seg[1] + 1000)
            /\ {issued[k] : k \in (2 + ladder)..Len(issued)}
                 = EndSamples(trim_duration, start0 + 500)
            /\ \A j, k \in (2 + ladder)..Len(issued) : j < k => issued[j] < issued[k]

\* The same for the scans whose number of samples np.arange computes as exact
\* arithmetic does.
EndScanEarliestPeakExactLength ==
    (trim_result # <<>> /\ ~trim_probe[100].raises
        /\ <<trim_duration, StartScan(trim_duration, trim_probe, 1) + 500>>
              \notin ArangeRoundsUp) =>
        LET start0 == StartScan(trim_duration, trim_probe, 1)
            expected == ExpectedEnd(trim_duration, trim_probe, start0 + 500)
            seg == trim_result[1].segment
            issued == trim_result[1].issued
            ladder == Len(LadderIssued(trim_duration, trim_probe, 1))
        IN  /\ seg[3] = expected[2]
            /\ seg[1] + seg[2]
                 = Max(Min(expected[1], (17 * trim_duration) \div 20), seg[1] + 1000)
            /\ {issued[k] : k \in (2 + ladder)..Len(issued)}
                 = EndSamples(trim_duration, start0 + 500)
            /\ \A j, k \in (2 + ladder)..Len(issued) : j < k => issued[j] < issued[k]

\* Whether the probe at t returned a similarity below 0.85.
DropsAt(probe, t) ==
    /\ ~probe[t].raises
    /\ (IF probe[100].readable /\ probe[t].readable THEN Max(0, probe[t].sim) ELSE 0) < 850

\* C24: the probes of one clip are issued in a fixed order, each gating the
\* next: the reference, then ladder probes 0.2, 0.4, ... of which none follows a
\* probe with similarity below 0.85, then the end-scan probes in ascending time,
\* none of them before motion_start + 0.5 s of the finished start scan.
ProbesInFixedOrder ==
    trim_result # <<>> =>
        LET issued == trim_result[1].issued
        IN  /\ issued[1] = 100
            /\ \E m \in 1..Len(issued) :
                  /\ \A k \in 2..m : issued[k] = 200 * (k - 1)
                  /\ \A k \in 2..(m - 1) : ~DropsAt(trim_probe, issued[k])
                  /\ \A k \in (m + 1)..Len(issued) :
                        /\ issued[k] >= 500 + (IF m > 1 /\ DropsAt(trim_probe, issued[m])
                                               THEN issued[m] ELSE trim_duration \div 10)
                        /\ k > m + 1 => issued[k - 1] < issued[k]

WitnessLadderStopsAtSecondProbe ==
    /\ trim_result # <<>>
    /\ trim_duration = 5000
    /\ trim_probe[200] = Compared(900)
    /\ trim_probe[400] = Compared(600)
    /\ Len(trim_result[1].issued) >= 5
    /\ SubSeq(trim_result[1].issued, 1, 5) = <<100, 200, 400, 900, 1050>>

\* The end time as the resolution order describes it, from the numbers the
\* values of the file stand for.
ResolvedEnd(rec) ==
    IF rec.emb_end.means # <<>> THEN rec.emb_end.means
    ELSE IF rec.duration.means # <<>>
         THEN <<rec.emb_start.means[1] + rec.duration.means[1]>>
    ELSE IF rec.frames.means # <<>> /\ rec.fps.means # <<>> /\ rec.fps.means[1] # 0
         THEN <<rec.emb_start.means[1]
                + (rec.frames.means[1] * 1000000) \div rec.fps.means[1]>>
    ELSE <<>>

\* C25: for a record with a start time, the end is the explicit end when there
\* is one; else start + duration when there is a duration; else start +
\* frames/fps when there are frames and a non-zero fps; else unresolved.
EndTimeResolutionOrder ==
    (meta_item # <<>> /\ meta_record.emb_start.means # <<>>) =>
        /\ meta_item[1].emb_start = meta_record.emb_start.means
        /\ meta_item[1].emb_end = ResolvedEnd(meta_record)

WitnessEndFromFramesAndFps ==
    /\ meta_item # <<>>
    /\ meta_record.emb_start.means = <<1500>>
    /\ meta_record.emb_end.means = <<>>
    /\ meta_record.duration.means = <<>>
    /\ meta_record.frames.means = <<50>>
    /\ meta_record.fps.means = <<25000>>
    /\ meta_item[1].emb_end = <<3500>>

\* C26: the weighted sum is at most 1.0 before the final min(1.0, score), each
\* contribution is at most its weight, _color_harmony is at most 1, and the
\* returned score is the unclamped sum.
ClampNeverChangesScore ==
    score # <<>> =>
        LET end_a == clip_a.end_frame
            start_b == clip_b.start_frame
            harmony == color_harmony(end_a.dominant_colors, start_b.dominant_colors)
        IN  /\ harmony[1] <= harmony[2]
            /\ SubjectCredit(end_a, start_b) <= SubjectWeight
            /\ SceneCredit(end_a, start_b) <= SceneWeight
            /\ LightingCredit(end_a, start_b) <= LightingWeight
            /\ MotionCredit(end_a, start_b) <= MotionWeight
            /\ ColorCredit(end_a, start_b) <= ColorWeight
            /\ RawScore(clip_a, clip_b) <= Scale
            /\ score[1] = RawScore(clip_a, clip_b)

WitnessFullScoreWithRepeatedColour ==
    /\ score = <<Scale>>
    /\ clip_a.end_frame.dominant_colors = <<"red", "red">>
    /\ clip_b.start_frame.dominant_colors = <<"red">>
    /\ RawScore(clip_a, clip_b) = Scale

\* C27: the kept interval lies inside the clip: motion_start >= 0 and
\* motion_start + clean_duration <= duration.
KeptIntervalInsideClip ==
    trim_result # <<>> =>
        /\ trim_result[1].segment[1] >= 0
        /\ trim_result[1].segment[1] + trim_result[1].segment[2] <= trim_duration

\* C28: every timestamp handed to extract_frame lies in [0, duration).
ProbesInsideClip ==
    trim_result # <<>> =>
        \A k \in 1..Len(trim_result[1].issued) :
            /\ trim_result[1].issued[k] >= 0
            /\ trim_result[1].issued[k] < trim_duration

\* C29: the timeline of smart_manifest.json is consistent: item 0 starts at 0,
\* every item lasts 5.0 s, an item starts at the end of the one before, less the
\* transition's duration when that transition is a crossfade, its transition_in
\* is that transition, t0 increases strictly, and total_duration is the last t1.
TimelineConsistent ==
    smart_manifest # <<>> =>
        LET its == smart_manifest[1].items
            trs == smart_manifest[1].transitions
        IN  /\ Len(its) > 0
            /\ its[1].t0 = 0
            /\ its[1].transition_in = <<>>
            /\ \A i \in 1..Len(its) : its[i].t1 - its[i].t0 = 5000
            /\ \A i \in 2..Len(its) :
                  /\ its[i].transition_in = <<trs[i - 1]>>
                  /\ its[i].t0 = IF trs[i - 1].type = "crossfade"
                                 THEN its[i - 1].t1 - trs[i - 1].duration
                                 ELSE its[i - 1].t1
                  /\ its[i].t0 > its[i - 1].t0
            /\ smart_manifest[1].total_duration = its[Len(its)].t1

WitnessCrossfadeThenFade ==
    /\ smart_manifest # <<>>
    /\ Len(smart_manifest[1].items) = 3
    /\ smart_manifest[1].transitions[1].type = "crossfade"
    /\ smart_manifest[1].transitions[2].type = "fade_black"
    /\ smart_manifest[1].items[2].t0 = 4500
    /\ smart_manifest[1].items[3].t0 = 9500
    /\ smart_manifest[1].total_duration = 14500

\* C30: the filter graph joins exactly the consecutive pairs of the inputs:
\* with n inputs it has n - 1 joins (or one concat of all n), the join of the
\* inputs at positions i and i + 1 has the kind and duration of the manifest's
\* transition between those two items when they are neighbours in the
\* manifest, and every stream a join refers to is one of the n inputs.
FilterJoinsConsecutiveInputs ==
    (filter_run # <<>> /\ filter_run[1].outcome = "ffmpeg") =>
        LET n == Len(filter_run[1].inputs)
            valid == filter_run[1].valid
            graph == filter_run[1].graph
            trs == filter_manifest.transitions
        IN  /\ graph.streams = n
            /\ graph.concat = n \/ Len(graph.joins) = n - 1
            /\ \A i \in 1..Len(graph.joins) : graph.joins[i].next_idx <= n - 1
            /\ \A i \in 1..Len(graph.joins) :
                  (i < n /\ valid[i + 1].path = valid[i].path + 1) =>
                      /\ graph.joins[i].kind = JoinKind(trs[valid[i].path])
                      /\ graph.joins[i].duration = trs[valid[i].path].duration

\* The same for the manifests all of whose files are on disk.
FilterJoinsWhenNoFileMissing ==
    (filter_run # <<>> /\ filter_run[1].outcome = "ffmpeg"
        /\ \A i \in 1..Len(filter_manifest.items) : filter_manifest.items[i].exists) =>
        LET n == Len(filter_run[1].inputs)
            graph == filter_run[1].graph
            trs == filter_manifest.transitions
        IN  /\ graph.streams = n
            /\ graph.concat = n \/ Len(graph.joins) = n - 1
            /\ \A i \in 1..Len(graph.joins) :
                  /\ graph.joins[i].next_idx <= n - 1
                  /\ graph.joins[i].kind = JoinKind(trs[i])
                  /\ graph.joins[i].duration = trs[i].duration

=============================================================================
